---- MODULE Spec2Model ----
(***************************************************************************)
(* The Titan Memory consolidation engine of LazyCodingKing/stmem.          *)
(*                                                                         *)
(* Two variants of the engine are in the repository and both are modelled: *)
(*   "plain"       src/unnamed/part_003   (rolling summary in chat         *)
(*                                         metadata)                       *)
(*   "structured"  src/index.js:446-931   (ENTRY/KEYWORDS/CONTENT triples  *)
(*                                         merged into a lorebook)         *)
(*                                                                         *)
(* The host (SillyTavern) is single threaded: a handler runs without       *)
(* interruption until it awaits a promise that is settled by I/O           *)
(* (generateRaw, the embedding fetch).  One action of the model is one     *)
(* such uninterrupted run.  An await of an async function that does no     *)
(* I/O only yields to the micro-task queue; no event, click or response    *)
(* is delivered before it resumes, and it stays inside the action.         *)
(*                                                                         *)
(* Indices (last_index, prunePoint, i) are the 0-based indices of the      *)
(* code; chat[i] of the code is chats[current][i + 1] here.                *)
(***************************************************************************)
EXTENDS Integers, Sequences, FiniteSets, TLC

\* ---------------------------------------------------------------- bounds
\* messages a chat can hold
MaxMsgs == 3
\* largest value of the threshold setting
MaxThreshold == 2
\* pruning passes that can wait for an embedding response at the same time
MaxPrunes == 2
\* longest content (in tokens) of a lorebook entry
MaxContent == 3
\* entries a chat's vector store can hold
MaxStore == 2

\* GENERATION_STARTED handlers that can wait for an embedding response
MaxRetrievals == 1

\* callbacks given to setTimeout that can wait at the same time
MaxTimers == 2
\* generateSummaryForMessage calls that can wait for a generation at the
\* same time
MaxSummaryRuns == 2

\* the conversation scopes the host can switch between
Chats == {"A", "B"}
\* the token count the host's tokenizer gives a message
MsgTokens == {120}

\* ------------------------------------------------------------- constants
\* `getSetting("tokenbudget") || 1000`
DefaultTokenBudget == 1000
\* `const summaryReserve = 300` (structured variant)
summaryReserve == 300
\* `Math.max(200, maxBudget - summaryReserve)` (structured variant)
MinChatBudget == 200

VARIABLES
    variant,          \* which of the two engine files is loaded
    settings,         \* extension_settings[MODULENAME]
    current,          \* the chat the host has open
    characterId,      \* ctx.characterId is set: one character is selected
    chats,            \* per chat: the messages; ctx.chat is chats[current]
    chat_metadata,    \* per chat: chat_metadata[MODULENAME]
    lorebook,         \* the character's memory lorebook entries
    isProcessing,     \* the module-level flag
    runs,             \* runSummarization frames awaiting generateRaw
    prunes,           \* handlePruning frames awaiting the embedding fetch
    extensionPrompt,  \* what setExtensionPrompt(MODULENAME + 'injection') holds
    lastToast,        \* the message of the last toast() or error() call
    unhandled,        \* an exception or a rejected promise has reached the host
    retrievals,       \* GENERATION_STARTED frames awaiting the embedding fetch
    ragPrompt,        \* what setExtensionPrompt(MODULENAME + 'rag') holds
    timers,           \* the callbacks given to setTimeout that have not run yet
    request,          \* the call of a MemoryAPI method that is under way, or the last one
    plugin,           \* the MemorySummarizePlugin instance and its pending summarizations
    debounced         \* the closure of one debounce(func, delay) wrapper, with its timer

vars == <<variant, settings, current, characterId, chats, chat_metadata, lorebook,
          isProcessing, runs, prunes, extensionPrompt, lastToast, unhandled,
          retrievals, ragPrompt, timers, request, plugin, debounced>>

Max(a, b) == IF a >= b THEN a ELSE b

\* the sequence without its k-th element (array.splice(k, 1), a promise or
\* timer that is done)
RemoveAt(seq, k) == SubSeq(seq, 1, k - 1) \o SubSeq(seq, k + 1, Len(seq))

\* ------------------------------------------------------------- MemoryAPI
\* api.js holds two versions of the class: the first ("simple") makes one
\* fetch per call, the second ("retry") goes through makeRequest.  A call is
\* the record [class, method, endpoint, characterId, data, attempt,
\* lastError, waiting, status, value, log]: `endpoint` and `characterId`
\* say whether config.apiEndpoint and the argument are set, `data` is
\* "none", "plain" or "circular" (JSON.stringify throws on it), `log` lists
\* what each attempt did, and `value` is what the call returned or threw.
retries == 3

NoRequest ==
    [class |-> "none", method |-> "none", endpoint |-> FALSE, characterId |-> FALSE,
     data |-> "none", attempt |-> 0, lastError |-> "none", waiting |-> "none",
     status |-> "idle", value |-> "none", log |-> <<>>]

\* the bodies response.json() can parse: JSON `null` and a memory object
Bodies == {"null", "memory"}

\* what `await fetch(url, options)` and `await response.json()` can do: the
\* fetch rejects, the response is not ok, the body is not JSON, or it is
FetchOutcomes ==
    {[kind |-> k, body |-> "none"] : k \in {"reject", "notOk", "badJson"}}
    \cup {[kind |-> "ok", body |-> b] : b \in Bodies}

Return(r, v) == [r EXCEPT !.status = "returned", !.value = v, !.waiting = "none"]

Throw(r, e) == [r EXCEPT !.status = "thrown", !.value = e, !.waiting = "none"]

\* the loop of makeRequest going on while attempt <= retries
MoreAttempts_Inclusive(attempt) == attempt <= retries

\* `attempt < this.retries`, the condition of the loop of makeRequest
MoreAttempts(attempt) == attempt < retries

\* the method that called makeRequest goes on with what it returned ...
Resolved(r, body) ==
    CASE r.method = "makeRequest" -> Return(r, body)
      [] r.method = "fetchMemory" -> Return(r, body)
      [] OTHER -> Return(r, IF body # "null" THEN "true" ELSE "false")

\* ... or with what it threw, which fetchMemory, saveMemory and
\* testConnection catch
Rejected(r, error) ==
    CASE r.method = "makeRequest" -> Throw(r, error)
      [] r.method = "fetchMemory" -> Return(r, "null")
      [] OTHER -> Return(r, "false")

\* `await fetch(url, options)` is reached: the request is in flight
Fetch(r) == [r EXCEPT !.waiting = "fetch", !.log = Append(@, "pending")]

\* makeRequest from the head of its loop to the next await on the network
\* or on the backoff timer
RECURSIVE makeRequest(_)
RECURSIVE Caught(_, _)
makeRequest(r) ==
    IF MoreAttempts(r.attempt)
    THEN IF r.data = "circular"
         THEN Caught([r EXCEPT !.log = Append(@, "stringify")], "stringify")
         ELSE Fetch(r)
    ELSE Rejected(r, r.lastError)

\* the catch block of makeRequest
Caught(r, error) ==
    LET r1 == [r EXCEPT !.lastError = error]
    IN  IF r.attempt < retries - 1
        THEN [r1 EXCEPT !.waiting = "delay"]
        ELSE makeRequest([r1 EXCEPT !.attempt = @ + 1])

\* a method of the first version up to its fetch
SimpleCall(r) ==
    IF ~r.endpoint
    THEN Return(r, IF r.method = "fetchMemory" THEN "null" ELSE "false")
    ELSE IF r.method = "saveMemory" /\ r.data = "circular"
         THEN Return(r, "false")
         ELSE Fetch(r)

\* fetchMemory(characterId) of the second version up to its first await
fetchMemory(r) ==
    IF ~r.characterId THEN Return(r, "null") ELSE makeRequest(r)

\* saveMemory(characterId, data) of the second version
saveMemory(r) ==
    IF ~r.characterId \/ r.data = "none" THEN Return(r, "false") ELSE makeRequest(r)

\* testConnection() of the second version
testConnection(r) ==
    IF ~r.endpoint THEN Return(r, "false") ELSE makeRequest(r)

\* the request in flight settles: the method goes on after its await
AfterFetch(r, outcome) ==
    LET r1 == [r EXCEPT !.log[Len(r.log)] =
                               IF outcome.kind = "ok" THEN outcome.body ELSE outcome.kind]
    IN  IF r.class = "simple"
        THEN CASE r.method = "fetchMemory" ->
                      Return(r1, IF outcome.kind = "ok" THEN outcome.body ELSE "null")
               [] OTHER ->
                      Return(r1, IF outcome.kind \in {"reject", "notOk"}
                                 THEN "false" ELSE "true")
        ELSE IF outcome.kind = "ok"
             THEN Resolved(r1, outcome.body)
             ELSE Caught(r1, outcome.kind)

\* the variables of the two extensions, which the library classes do not
\* touch
extension == <<variant, settings, current, characterId, chats, chat_metadata, lorebook,
               isProcessing, runs, prunes, extensionPrompt, lastToast, unhandled,
               retrievals, ragPrompt, timers>>

\* a method of either version is called while no call is under way
Call ==
    /\ request.status # "pending"
    /\ \E class \in {"simple", "retry"} :
       \E method \in {"fetchMemory", "saveMemory", "testConnection", "makeRequest"} :
       \E endpoint \in BOOLEAN, id \in BOOLEAN :
       \E data \in {"none", "plain", "circular"} :
           /\ class = "simple" => method # "makeRequest"
           /\ method \in {"fetchMemory", "testConnection"} => data = "none"
           /\ LET r == [NoRequest EXCEPT !.class = class, !.method = method,
                                         !.endpoint = endpoint, !.characterId = id,
                                         !.data = data, !.status = "pending"]
              IN  request' = CASE class = "simple" -> SimpleCall(r)
                               [] method = "fetchMemory" -> fetchMemory(r)
                               [] method = "saveMemory" -> saveMemory(r)
                               [] method = "testConnection" -> testConnection(r)
                               [] OTHER -> makeRequest(r)
    /\ UNCHANGED <<extension, plugin, debounced>>

\* the fetch settles
FetchSettles ==
    /\ request.waiting = "fetch"
    /\ \E outcome \in FetchOutcomes : request' = AfterFetch(request, outcome)
    /\ UNCHANGED <<extension, plugin, debounced>>

\* the backoff timer of `await this.delay(...)` runs: attempt++ and the
\* loop goes on
DelayElapses ==
    /\ request.waiting = "delay"
    /\ request' = makeRequest([request EXCEPT !.attempt = @ + 1, !.waiting = "none"])
    /\ UNCHANGED <<extension, plugin, debounced>>

\* ------------------------------------------------- MemorySummarizePlugin
\* The plugin is [config, memoryBuffer, lastSummaryTime, pending, now,
\* pushed, run]: a buffered message is the number of the push that added
\* it, `pending` holds the calls of summarizeMemory that wait at `await
\* this.summarizer.summarize(text)`, each with the messages its text was
\* built from, and `now` is what Date.now() returns.  summarize(text)
\* does no input or output, so a pending summarizeMemory resumes in a
\* micro-task, when the synchronous run that started it ends: `run` says
\* whether that run is the host emitting events ("emit"), which may emit
\* more of them before it ends, or a click ("click"), which is dispatched
\* alone and when no micro-task is left.
MaxPushes == 3
MaxPending == 2
MaxClock == 3

\* the state the constructor leaves
NewPlugin ==
    [config |-> [enabled |-> TRUE, autoSummarize |-> TRUE,
                 maxHistoryLines |-> 50, updateInterval |-> 300000],
     memoryBuffer |-> <<>>, lastSummaryTime |-> 0, pending |-> <<>>,
     now |-> 1, pushed |-> 0, run |-> "none"]

\* summarizeMemory up to its await: nothing to do on an empty buffer,
\* otherwise the text is built from the buffer as it is now
summarizeMemory(p) ==
    IF Len(p.memoryBuffer) = 0
    THEN p
    ELSE [p EXCEPT !.pending = Append(@, [text |-> p.memoryBuffer])]

\* checkAutoSummarize
checkAutoSummarize(p) ==
    IF /\ p.config.autoSummarize
       /\ Len(p.memoryBuffer) >= p.config.maxHistoryLines
       /\ p.now - p.lastSummaryTime >= p.config.updateInterval
    THEN summarizeMemory(p)
    ELSE p

\* an event of the host may come while a summarization is pending only in
\* the run that started it
Emitted(p) == p.pending = <<>> \/ p.run = "emit"

\* the 'message' event with a message that has a text
onMessageReceived ==
    /\ plugin.pushed < MaxPushes
    /\ Emitted(plugin)
    /\ LET pushed == [plugin EXCEPT !.pushed = @ + 1, !.run = "emit",
                                    !.memoryBuffer = Append(@, plugin.pushed + 1)]
           next == IF plugin.config.enabled
                   THEN checkAutoSummarize(pushed)
                   ELSE [plugin EXCEPT !.run = "emit"]
       IN  /\ Len(next.pending) <= MaxPending
           /\ plugin' = next
    /\ UNCHANGED <<extension, request, debounced>>

\* #ms-summarize-now is clicked
SummarizeClicked ==
    /\ plugin.pending = <<>>
    /\ plugin' = summarizeMemory([plugin EXCEPT !.run = "click"])
    /\ UNCHANGED <<extension, request, debounced>>

\* the 'character_loaded' event
onCharacterLoaded ==
    /\ Emitted(plugin)
    /\ plugin' = [plugin EXCEPT !.memoryBuffer = <<>>, !.lastSummaryTime = 0,
                                !.run = "emit"]
    /\ UNCHANGED <<extension, request, debounced>>

\* the 'character_unloaded' event
onCharacterUnloaded ==
    /\ Emitted(plugin)
    /\ plugin' = [plugin EXCEPT !.memoryBuffer = <<>>, !.run = "emit"]
    /\ UNCHANGED <<extension, request, debounced>>

\* what the awaited summarize(text) gives: null for a text that is empty,
\* and otherwise the text itself or its key sentences, of which a text
\* built from messages has at least one
summarize(text) == IF text = <<>> THEN "null" ELSE "summary"

\* summarizeMemory resumed after its await with a summary, with null, or
\* in its catch block ("throws")
SummarizeSettleWith(k, outcome) ==
    /\ k \in 1..Len(plugin.pending)
    /\ LET p1 == [plugin EXCEPT !.pending = RemoveAt(@, k)]
       IN  plugin' = IF outcome = "summary"
                     THEN [p1 EXCEPT !.lastSummaryTime = plugin.now,
                                     !.memoryBuffer = <<>>]
                     ELSE p1
    /\ UNCHANGED <<extension, request, debounced>>

SummarizeSettle ==
    \E k \in 1..Len(plugin.pending) :
        SummarizeSettleWith(k, summarize(plugin.pending[k].text))

\* time passes
ClockTick ==
    /\ plugin.now < MaxClock
    /\ plugin' = [plugin EXCEPT !.now = @ + 1]
    /\ UNCHANGED <<extension, request, debounced>>

\* --------------------------------------------------------------- debounce
\* The closure of one wrapper made by debounce(func, delay), with the
\* host's timer table: [timeoutId, table, nextId, invoked, lastArgs,
\* sinceCall, called, calls].  `timeoutId` is 0 for null; a timer of the
\* table is [id, args, elapsed]; `invoked` lists the arguments func was run
\* with; lastArgs, sinceCall (time since the last call of the wrapper, up
\* to Delay) and called (func has run since that call) record the calls.
Delay == 2
MaxCalls == 4
Arguments == {"a", "b"}

NewDebounced ==
    [timeoutId |-> 0, table |-> <<>>, nextId |-> 1, invoked |-> <<>>,
     lastArgs |-> "none", sinceCall |-> 0, called |-> FALSE, calls |-> 0]

\* clearTimeout(id): a timer that has run or was cleared is not in the table
clearTimeout(table, id) ==
    SelectSeq(table, LAMBDA t : t.id # id)

\* the wrapper never clearing the timer it has set
Cleared_Never(d) == d.table

\* `if (timeoutId) clearTimeout(timeoutId)`
Cleared(d) ==
    IF d.timeoutId # 0 THEN clearTimeout(d.table, d.timeoutId) ELSE d.table

\* the wrapper is called with new arguments
CallDebounced ==
    /\ debounced.calls < MaxCalls
    /\ \E args \in Arguments :
           debounced' =
               [debounced EXCEPT
                    !.table = Append(Cleared(debounced),
                                     [id |-> debounced.nextId, args |-> args, elapsed |-> 0]),
                    !.timeoutId = debounced.nextId,
                    !.nextId = @ + 1,
                    !.lastArgs = args, !.sinceCall = 0, !.called = FALSE,
                    !.calls = @ + 1]
    /\ UNCHANGED <<extension, request, plugin>>

\* a time unit passes
DebounceTick ==
    /\ debounced.sinceCall < Delay
    /\ debounced' =
           [debounced EXCEPT
                !.sinceCall = @ + 1,
                !.table = [i \in 1..Len(@) |->
                               [@[i] EXCEPT !.elapsed = IF @ < Delay THEN @ + 1 ELSE @]]]
    /\ UNCHANGED <<extension, request, plugin>>

\* a timer whose delay has passed runs its callback: func.apply(this, args),
\* and then, unless func threw, timeoutId = null
TimerRuns ==
    /\ \E k \in 1..Len(debounced.table) : \E throws \in BOOLEAN :
           /\ debounced.table[k].elapsed >= Delay
           /\ debounced' =
                  [debounced EXCEPT
                       !.table = RemoveAt(@, k),
                       !.invoked = Append(@, debounced.table[k].args),
                       !.called = TRUE,
                       !.timeoutId = IF throws THEN @ ELSE 0]
    /\ UNCHANGED <<extension, request, plugin>>

\* ---------------------------------------- the library classes on their own
\* neither extension is loaded
InitLibrary ==
    /\ variant = "none"
    /\ settings = <<>>
    /\ characterId = FALSE
    /\ current = "A"
    /\ chats = [c \in Chats |-> <<>>]
    /\ chat_metadata = [c \in Chats |-> [summary |-> <<>>, last_index |-> 0,
                                         vector_store |-> <<>>]]
    /\ lorebook = <<>>
    /\ isProcessing = FALSE
    /\ runs = <<>>
    /\ prunes = <<>>
    /\ extensionPrompt = <<>>
    /\ lastToast = "none"
    /\ unhandled = FALSE
    /\ retrievals = <<>>
    /\ ragPrompt = <<>>
    /\ timers = <<>>

\* calls of the methods of MemoryAPI, one at a time
InitApi == InitLibrary /\ request = NoRequest /\ plugin = NewPlugin /\ debounced = NewDebounced

NextApi == Call \/ FetchSettles \/ DelayElapses

SpecApi == InitApi /\ [][NextApi]_vars

\* the plugin after init() has merged the saved configuration
PluginConfigs ==
    [enabled : BOOLEAN, autoSummarize : BOOLEAN, maxHistoryLines : {2},
     updateInterval : {1}]

InitPlugin ==
    /\ InitLibrary
    /\ request = NoRequest
    /\ plugin \in {[NewPlugin EXCEPT !.config = c] : c \in PluginConfigs}
    /\ debounced = NewDebounced

NextPlugin ==
    \/ onMessageReceived
    \/ SummarizeClicked
    \/ onCharacterLoaded
    \/ onCharacterUnloaded
    \/ SummarizeSettle
    \/ ClockTick

SpecPlugin == InitPlugin /\ [][NextPlugin]_vars

\* one debounced wrapper, its calls and the timers of the host
InitDebounce == InitLibrary /\ request = NoRequest /\ plugin = NewPlugin /\ debounced = NewDebounced

NextDebounce == CallDebounced \/ DebounceTick \/ TimerRuns

SpecDebounce == InitDebounce /\ [][NextDebounce]_vars

\* the host runs a timer that is due, and time goes on
FairSpecDebounce == SpecDebounce /\ WF_vars(DebounceTick) /\ WF_vars(TimerRuns)

\* ------------------------------------------------------- text operations
\* A text is a sequence of tokens.  Words are the scope names (a generated
\* text is about the chat whose lines were in the prompt); the other tokens
\* are the labels and separators the code looks for.
Includes(text, tok) == \E i \in 1..Len(text) : text[i] = tok

IndexOf(text, tok) ==
    IF Includes(text, tok)
    THEN CHOOSE i \in 1..Len(text) : text[i] = tok /\ \A j \in 1..(i - 1) : text[j] # tok
    ELSE 0

RECURSIVE TrimStart(_)
TrimStart(text) ==
    IF text # <<>> /\ Head(text) \in {" ", "\n"} THEN TrimStart(Tail(text)) ELSE text

RECURSIVE TrimEnd(_)
TrimEnd(text) ==
    IF text # <<>> /\ text[Len(text)] \in {" ", "\n"}
    THEN TrimEnd(SubSeq(text, 1, Len(text) - 1)) ELSE text

\* String.prototype.trim
Trim(text) == TrimEnd(TrimStart(text))

\* parts[0] of text.split(tok)
SplitPart0(text, tok) == SubSeq(text, 1, IndexOf(text, tok) - 1)

\* parts[1] of text.split(tok): up to the next occurrence of tok
SplitPart1(text, tok) ==
    LET rest == SubSeq(text, IndexOf(text, tok) + 1, Len(text))
    IN  IF Includes(rest, tok) THEN SplitPart0(rest, tok) ELSE rest

\* text.replace(/SUMMARY:/gi, "")
RemoveSummaryLabel(text) == SelectSeq(text, LAMBDA t : t \notin {"SUMMARY:", "summary:"})

\* ----------------------------------------------------------------- state
\* The mutable state a handler reads and writes, as one record, so that the
\* calls of a handler compose in the order of the code.
St == [isProcessing |-> isProcessing, runs |-> runs, prunes |-> prunes,
       chats |-> chats, chat_metadata |-> chat_metadata, lorebook |-> lorebook,
       extensionPrompt |-> extensionPrompt, lastToast |-> lastToast,
       unhandled |-> unhandled]

Becomes(s) ==
    /\ isProcessing' = s.isProcessing
    /\ runs' = s.runs
    /\ prunes' = s.prunes
    /\ chats' = s.chats
    /\ chat_metadata' = s.chat_metadata
    /\ lorebook' = s.lorebook
    /\ extensionPrompt' = s.extensionPrompt
    /\ lastToast' = s.lastToast
    /\ unhandled' = s.unhandled
    /\ UNCHANGED <<variant, settings, current, characterId, retrievals, ragPrompt, timers, request, plugin, debounced>>

getSetting(key) == settings[key]

\* toast(message, type) and error(...): both end in a toastr call
toast(s, message) == [s EXCEPT !.lastToast = message]

\* undefined, 0 and "" are not told apart: every read is `... || 0`, `|| []`
\* or a truthiness test
getChatMetadata(s, key) == s.chat_metadata[current][key]

setChatMetadata(s, key, value) == [s EXCEPT !.chat_metadata[current][key] = value]


\* --------------------------------------------------------------- pruning
\* archiveMessageAsVector reaches fetch(): the plain variant needs the
\* setting and an API key (the message text is never empty here), the
\* structured variant tests the setting in handlePruning and always fetches
ArchiveDoesIO ==
    /\ getSetting("ragenabled")
    /\ variant = "plain" => getSetting("ragkey")

\* the budget the backwards count is compared with
PruneBudget ==
    LET maxBudget == IF getSetting("tokenbudget") = 0 THEN DefaultTokenBudget
                     ELSE getSetting("tokenbudget")
    IN  IF variant = "plain" THEN maxBudget
        ELSE Max(MinChatBudget, maxBudget - summaryReserve)

\* mutant: the cut is made when the total reaches the budget
RECURSIVE CountBackwards_AtBudget(_, _, _)
CountBackwards_AtBudget(chat, i, currentTokens) ==
    IF i < 0 THEN -1
    ELSE IF variant = "structured" /\ chat[i + 1].excludefromcontext
         THEN CountBackwards_AtBudget(chat, i - 1, currentTokens)
         ELSE IF currentTokens + chat[i + 1].mes >= PruneBudget THEN i
              ELSE CountBackwards_AtBudget(chat, i - 1, currentTokens + chat[i + 1].mes)

\* `for (let i = chat.length - 1; i >= 0; i--)`: the index at which the
\* running total first exceeds the budget, -1 when it never does
RECURSIVE CountBackwards(_, _, _)
CountBackwards(chat, i, currentTokens) ==
    IF i < 0 THEN -1
    ELSE IF variant = "structured" /\ chat[i + 1].excludefromcontext
         THEN CountBackwards(chat, i - 1, currentTokens)
         ELSE IF currentTokens + chat[i + 1].mes > PruneBudget THEN i
              ELSE CountBackwards(chat, i - 1, currentTokens + chat[i + 1].mes)

\* mutant: the loop stops one message before the cut
RECURSIVE PruneLoop_StopBefore(_, _, _)
PruneLoop_StopBefore(s, i, prunePoint) ==
    IF i >= prunePoint THEN s
    ELSE PruneLoop_StopBefore([s EXCEPT !.chats[current][i + 1].excludefromcontext = TRUE],
                              i + 1, prunePoint)

\* mutant: the messages up to the cut are removed from the chat
PruneLoop_Remove(s, i, prunePoint) ==
    [s EXCEPT !.chats[current] = SubSeq(@, prunePoint + 2, Len(@))]

\* `for (let i = 0; i <= prunePoint; i++)` from index i on, up to the first
\* await that waits for I/O.  chat is the host's one array: after a chat
\* change chat[i] is the message of the chat now open, and an index past its
\* end throws a TypeError that ends the pass: the promise of handlePruning,
\* which no caller awaits or catches, is rejected.
RECURSIVE PruneLoop(_, _, _)
PruneLoop(s, i, prunePoint) ==
    IF i > prunePoint THEN s
    ELSE IF i >= Len(s.chats[current]) THEN [s EXCEPT !.unhandled = TRUE]
    ELSE IF s.chats[current][i + 1].excludefromcontext THEN PruneLoop(s, i + 1, prunePoint)
    ELSE IF ArchiveDoesIO
         THEN [s EXCEPT !.prunes = Append(@, [i |-> i, prunePoint |-> prunePoint,
                                               text |-> <<current, i>>])]
         ELSE PruneLoop([s EXCEPT !.chats[current][i + 1].excludefromcontext = TRUE],
                        i + 1, prunePoint)

handlePruning(s) ==
    IF ~getSetting("enabled") \/ ~getSetting("pruningenabled") THEN s
    ELSE IF Len(s.chats[current]) = 0 THEN s
    ELSE LET prunePoint == CountBackwards(s.chats[current], Len(s.chats[current]) - 1, 0)
         IN  IF prunePoint > -1 THEN PruneLoop(s, 0, prunePoint) ELSE s

\* what getEmbedding returns when there is no embedding: null
NoVector == <<>>

\* the embeddings a provider returns.  With <<1, 0, 0, 0>> as the one the
\* cosine is taken against, <<4, 3, 0, 0>> scores 0.8, <<7, 7, 1, 1>> exactly
\* 0.7 and <<3, 4, 0, 0>> 0.6; against <<7, 7, 1, 1>> the vectors
\* <<4, 3, 0, 0>> and <<3, 4, 0, 0>> both score 0.98.
Vectors == {<<1, 0, 0, 0>>, <<4, 3, 0, 0>>, <<7, 7, 1, 1>>, <<3, 4, 0, 0>>}

\* the embedding a fetch of the archive returns when it returns one
ArchiveVectors == {<<1, 0, 0, 0>>}

\* mutant: an entry is stored whatever getEmbedding returned
archiveMessageAsVector_StoreNull(s, text, vector) ==
    setChatMetadata(s, "vector_store",
                    Append(getChatMetadata(s, "vector_store"),
                           [text |-> text, vector |-> vector]))

\* archiveMessageAsVector after getEmbedding returned: the store of the chat
\* now open gets the text and the vector when there is a vector
archiveMessageAsVector(s, text, vector) ==
    IF vector # NoVector
    THEN setChatMetadata(s, "vector_store",
                         Append(getChatMetadata(s, "vector_store"),
                                [text |-> text, vector |-> vector]))
    ELSE s

\* handlePruning resumed after `await archiveMessageAsVector(chat[i].mes)`
ResumePruning(s, frame, vector) ==
    LET s1 == archiveMessageAsVector(s, frame.text, vector)
    IN  IF frame.i >= Len(s1.chats[current]) THEN [s1 EXCEPT !.unhandled = TRUE]
        ELSE PruneLoop([s1 EXCEPT !.chats[current][frame.i + 1].excludefromcontext = TRUE],
                       frame.i + 1, frame.prunePoint)

\* -------------------------------------------------------------- retrieval
RECURSIVE Dot(_, _, _)
Dot(a, b, n) == IF n = 0 THEN 0 ELSE Dot(a, b, n - 1) + a[n] * b[n]

\* dot / (sqrt(magA) * sqrt(magB)), kept exact as the pair of the dot
\* product and magA * magB.  The components of the vectors are not negative
\* and no vector is null, so no score is negative or NaN; the vectors of one
\* provider have one length, and part_003 gives 0 when the lengths differ.
cosineSimilarity(vecA, vecB) ==
    IF variant = "plain" /\ Len(vecA) # Len(vecB) THEN [dot |-> 0, mag |-> 1]
    ELSE [dot |-> Dot(vecA, vecB, Len(vecA)),
          mag |-> Dot(vecA, vecA, Len(vecA)) * Dot(vecB, vecB, Len(vecA))]

\* `b.score - a.score` is negative: a goes before b
ScoreAbove(a, b) == a.dot * a.dot * b.mag > b.dot * b.dot * a.mag

\* `m.score > 0.7`
AboveThreshold(score) == 100 * score.dot * score.dot > 49 * score.mag

\* Array.prototype.sort with (a, b) => b.score - a.score: descending, and
\* stable, so that equal scores keep the order they have in the store
RECURSIVE InsertByScore(_, _)
InsertByScore(sorted, m) ==
    IF sorted = <<>> THEN <<m>>
    ELSE IF ScoreAbove(m.score, Head(sorted).score) THEN <<m>> \o sorted
    ELSE <<Head(sorted)>> \o InsertByScore(Tail(sorted), m)

RECURSIVE SortByScore(_, _)
SortByScore(scored, n) ==
    IF n = 0 THEN <<>> ELSE InsertByScore(SortByScore(scored, n - 1), scored[n])

\* matches.map(m => m.text).join("\n")
RECURSIVE JoinTexts(_)
JoinTexts(matches) ==
    IF matches = <<>> THEN <<>>
    ELSE IF Len(matches) = 1 THEN <<matches[1].text>>
    ELSE <<matches[1].text, "\n">> \o JoinTexts(Tail(matches))

\* retrieveRAGContext after getEmbedding returned
retrieveRAGContext(s, vector) ==
    LET store == getChatMetadata(s, "vector_store")
        scored == [i \in 1..Len(store) |->
                      [text |-> store[i].text,
                       score |-> cosineSimilarity(vector, store[i].vector)]]
        sorted == SortByScore(scored, Len(scored))
        depth == IF getSetting("ragdepth") = 0 THEN 3 ELSE getSetting("ragdepth")
        sliced == SubSeq(sorted, 1, IF depth < Len(sorted) THEN depth ELSE Len(sorted))
        matches == SelectSeq(sliced, LAMBDA m : AboveThreshold(m.score))
    IN  IF vector = NoVector THEN <<>>
        ELSE IF store = <<>> THEN <<>>
        ELSE JoinTexts(matches)

\* the GENERATION_STARTED handler after `await retrieveRAGContext(lastMsg.mes)`:
\* only part_003 clears the prompt when nothing was retrieved
InjectRAG(context) ==
    IF context # <<>> THEN <<"[Relevant Past Memories:">> \o context \o <<"]">>
    ELSE IF variant = "plain" THEN <<>>
    ELSE ragPrompt

\* -------------------------------------------------------------- lorebook
\* mutant: the titles are compared as they are written
Lower_AsWritten(title) == title

\* toLowerCase on the entry titles of the model
Lower(title) == IF title = "Alice" THEN "alice" ELSE title

\* keywords.split(',').map(k => k.trim()); every token of a keyword string
\* is one character
RECURSIVE SplitComma(_)
SplitComma(keywords) ==
    IF ~Includes(keywords, ",") THEN <<Trim(keywords)>>
    ELSE <<Trim(SplitPart0(keywords, ","))>>
         \o SplitComma(SubSeq(keywords, IndexOf(keywords, ",") + 1, Len(keywords)))

\* structured variant: find the entry by title ignoring case, merge or create;
\* nothing is done when no character is selected
updateSpecificLorebookEntry(lb, title, keywords, content) ==
    IF ~characterId THEN lb
    ELSE IF \E i \in 1..Len(lb) : Lower(lb[i].displayName) = Lower(title)
         THEN LET i == CHOOSE k \in 1..Len(lb) :
                           /\ Lower(lb[k].displayName) = Lower(title)
                           /\ \A j \in 1..(k - 1) : Lower(lb[j].displayName) # Lower(title)
              IN  [lb EXCEPT ![i].content = @ \o <<"\n">> \o content,
                             ![i].keys = IF Len(keywords) > Len(@)
                                         THEN SplitComma(keywords) ELSE @]
         ELSE Append(lb, [displayName |-> title, keys |-> SplitComma(keywords),
                          content |-> content])

\* mutant: the loop ends at the first triple without a name or a content
RECURSIVE processStructuredMemory_StopAtMalformed(_, _, _)
processStructuredMemory_StopAtMalformed(lb, triples, entriesFound) ==
    IF triples = <<>> THEN [lorebook |-> lb, entriesFound |-> entriesFound]
    ELSE LET m == Head(triples)
         IN  IF m.title # "" /\ m.content # <<>>
             THEN processStructuredMemory_StopAtMalformed(
                      updateSpecificLorebookEntry(lb, m.title, m.keywords, m.content),
                      Tail(triples), entriesFound + 1)
             ELSE [lorebook |-> lb, entriesFound |-> entriesFound]

\* mutant: every match is counted, merged or not
RECURSIVE processStructuredMemory_CountAll(_, _, _)
processStructuredMemory_CountAll(lb, triples, entriesFound) ==
    IF triples = <<>> THEN [lorebook |-> lb, entriesFound |-> entriesFound]
    ELSE LET m == Head(triples)
         IN  IF m.title # "" /\ m.content # <<>>
             THEN processStructuredMemory_CountAll(
                      updateSpecificLorebookEntry(lb, m.title, m.keywords, m.content),
                      Tail(triples), entriesFound + 1)
             ELSE processStructuredMemory_CountAll(lb, Tail(triples), entriesFound + 1)

\* the `while ((match = entryRegex.exec(responseText)) !== null)` loop over
\* the matched triples: [lorebook, entriesFound]
RECURSIVE processStructuredMemory(_, _, _)
processStructuredMemory(lb, triples, entriesFound) ==
    IF triples = <<>> THEN [lorebook |-> lb, entriesFound |-> entriesFound]
    ELSE LET m == Head(triples)
         IN  IF m.title # "" /\ m.content # <<>>
             THEN processStructuredMemory(
                      updateSpecificLorebookEntry(lb, m.title, m.keywords, m.content),
                      Tail(triples), entriesFound + 1)
             ELSE processStructuredMemory(lb, Tail(triples), entriesFound)

\* plain variant: keywordsRaw.split(",").map(trim).filter(k => k.length > 0),
\* or the default keys
PlainKeys(keywordsRaw) ==
    IF keywordsRaw = <<>> THEN <<"titan", "memory", "summary">>
    ELSE SelectSeq(keywordsRaw, LAMBDA t : t \notin {",", " "})

\* plain variant: one entry named after the character, created or rewritten
updateLorebook(s, summary, keywordsRaw) ==
    IF ~getSetting("lorebooksync") THEN s
    ELSE IF ~characterId THEN s
    ELSE IF \E i \in 1..Len(s.lorebook) : s.lorebook[i].displayName = "Titan Memory"
         THEN LET i == CHOOSE k \in 1..Len(s.lorebook) :
                           s.lorebook[k].displayName = "Titan Memory"
              IN  [s EXCEPT !.lorebook[i].content = summary,
                            !.lorebook[i].keys = PlainKeys(keywordsRaw)]
         ELSE [s EXCEPT !.lorebook = Append(@, [displayName |-> "Titan Memory",
                                                 keys |-> PlainKeys(keywordsRaw),
                                                 content |-> summary])]

\* ------------------------------------------------------------- injection
\* mutant: the block is added to what is injected already
refreshMemoryInjection_Append(s) ==
    LET summary == getChatMetadata(s, "summary")
    IN  IF summary # <<>> /\ getSetting("enabled")
        THEN [s EXCEPT !.extensionPrompt = @ \o <<"[Story Memory:">> \o summary \o <<"]">>]
        ELSE s

refreshMemoryInjection(s) ==
    LET summary == getChatMetadata(s, "summary")
        cleared == [s EXCEPT !.extensionPrompt = <<>>]
    IN  IF getSetting("lorebooksync") /\ ~getSetting("injectprompt") THEN cleared
        ELSE IF summary # <<>> /\ getSetting("enabled")
             THEN [s EXCEPT !.extensionPrompt = <<"[Story Memory:">> \o summary \o <<"]">>]
             ELSE cleared

\* --------------------------------------------------------- summarization
\* mutant: the guard on the flag is missing
AlreadyProcessing_NoGuard(s) == FALSE

\* `if (isProcessing) return;`
AlreadyProcessing(s) == s.isProcessing

\* mutant: the manual path applies the threshold too
NewMessagesEmpty_BelowThreshold(s) ==
    Len(s.chats[current]) - getChatMetadata(s, "last_index") < getSetting("threshold")

\* `chat.slice(lastIndex)` is empty
NewMessagesEmpty(s) == getChatMetadata(s, "last_index") >= Len(s.chats[current])

\* mutant: the early return forgets the flag
NoNewMessages_KeepFlag(s) == s

\* `if (newMessages.length === 0) { isProcessing = false; return; }`
NoNewMessages(s) == [s EXCEPT !.isProcessing = FALSE]

\* runSummarization up to `await generateRaw(prompt, main_api)`.  The prompt
\* holds the lines of chat.slice(lastIndex) of the chat that is open: the
\* scope and the two ends of the slice stand for it.  hangs says whether the
\* promise generateRaw returns will ever settle.
runSummarization(s, hangs) ==
    IF AlreadyProcessing(s) THEN s
    ELSE LET s1 == [s EXCEPT !.isProcessing = TRUE]
             chat == s1.chats[current]
             lastIndex == getChatMetadata(s1, "last_index")
         IN  IF NewMessagesEmpty(s1) THEN NoNewMessages(s1)
             ELSE LET s2 == IF variant = "structured"
                                THEN toast(s1, "Updating Memory Banks...") ELSE s1
                  IN  [s2 EXCEPT !.runs = Append(@,
                           [prompt |-> [scope |-> current, from |-> lastIndex,
                                        to |-> Len(chat)],
                            hangs |-> hangs])]

\* what generateRaw can resolve to in the plain variant: nothing, a summary,
\* a labelled summary, a summary with keywords, keywords alone, a summary of
\* three tokens (longer than the maxsummarylength of the settings)
PlainResults(prompt) ==
    { <<>>,
      <<prompt.scope>>,
      <<"SUMMARY:", " ", prompt.scope>>,
      <<prompt.scope, "\n", "KEYWORDS:", " ", "a", ",", "b">>,
      <<"KEYWORDS:", " ", "a">>,
      <<prompt.scope, " ", prompt.scope>> }

\* what generateRaw can resolve to in the structured variant: the text (empty
\* or not) and the triples entryRegex matches in it: none, one, one after a
\* triple without a name, one without content, two around one without content
StructuredResults(prompt) ==
    { [empty |-> TRUE, triples |-> <<>>],
      [empty |-> FALSE, triples |-> <<>>],
      [empty |-> FALSE,
       triples |-> << [title |-> "Alice", keywords |-> <<"a">>,
                       content |-> <<prompt.scope>>] >>],
      [empty |-> FALSE,
       triples |-> << [title |-> "", keywords |-> <<"a">>, content |-> <<prompt.scope>>],
                      [title |-> "alice", keywords |-> <<"a", ",", "b">>,
                       content |-> <<prompt.scope>>] >>],
      [empty |-> FALSE,
       triples |-> << [title |-> "Bob", keywords |-> <<>>, content |-> <<>>] >>],
      [empty |-> FALSE,
       triples |-> << [title |-> "Alice", keywords |-> <<"c", ",", "d">>,
                       content |-> <<prompt.scope>>],
                      [title |-> "Bob", keywords |-> <<"b">>, content |-> <<>>],
                      [title |-> "Bob", keywords |-> <<"b">>, content |-> <<prompt.scope>>] >>] }

\* the ways the promise of generateRaw settles
GenOutcomes(prompt) ==
    {[kind |-> "reject"]}
    \cup {[kind |-> "resolve", result |-> r] :
              r \in IF variant = "plain" THEN PlainResults(prompt)
                    ELSE StructuredResults(prompt)}

\* mutant: `if (!result) throw` is missing
GenerationFailed_RejectOnly(outcome) == outcome.kind = "reject"

\* `if (!result) throw new Error(...)`, or generateRaw rejected
GenerationFailed(outcome) ==
    \/ outcome.kind = "reject"
    \/ /\ outcome.kind = "resolve"
       /\ IF variant = "plain" THEN outcome.result = <<>> ELSE outcome.result.empty

\* mutant: one past the end of the chat
CommittedIndex_OffByOne(s) == Len(s.chats[current]) + 1

\* mutant: newMessages.length in place of chat.length
CommittedIndex_NewCount(s) == Len(s.chats[current]) - getChatMetadata(s, "last_index")

\* `setChatMetadata("last_index", chat.length)`
CommittedIndex(s) == Len(s.chats[current])

\* plain variant, the try block after a non-empty result
PlainCommit(s, result) ==
    LET hasKeywords == Includes(result, "KEYWORDS:")
        keywords == IF hasKeywords THEN Trim(SplitPart1(result, "KEYWORDS:")) ELSE <<>>
        summary == Trim(RemoveSummaryLabel(
                       IF hasKeywords THEN Trim(SplitPart0(result, "KEYWORDS:")) ELSE result))
        s1 == setChatMetadata(s, "summary", summary)
        s2 == setChatMetadata(s1, "last_index", CommittedIndex(s1))
    IN  toast(updateLorebook(s2, summary, keywords), "Memory updated successfully")

\* `Memory Updated: ${count} entities modified.`
UpdatedToast(count) ==
    IF count = 1 THEN "Memory Updated: 1 entities modified."
    ELSE IF count = 2 THEN "Memory Updated: 2 entities modified."
    ELSE "Memory Updated: 3 entities modified."

\* structured variant, the try block after a non-empty result
StructuredCommit(s, result) ==
    LET done == processStructuredMemory(s.lorebook, result.triples, 0)
        s1 == [s EXCEPT !.lorebook = done.lorebook]
    IN  IF done.entriesFound > 0
        THEN setChatMetadata(toast(s1, UpdatedToast(done.entriesFound)),
                             "last_index", CommittedIndex(s1))
        ELSE s1

\* the try block with its catch: `error("Summarization failed:", e)`
TryGenerate(s, outcome) ==
    IF GenerationFailed(outcome) THEN toast(s, "Summarization failed:")
    ELSE IF variant = "plain" THEN PlainCommit(s, outcome.result)
         ELSE StructuredCommit(s, outcome.result)

\* `finally { isProcessing = false; handlePruning(); refreshMemoryInjection(); }`
\* (the structured variant has no refreshMemoryInjection)
Finally_NoRefresh(s) ==
    handlePruning([s EXCEPT !.isProcessing = FALSE])

Finally(s) ==
    LET s1 == handlePruning([s EXCEPT !.isProcessing = FALSE])
    IN  IF variant = "plain" THEN refreshMemoryInjection(s1) ELSE s1

\* --------------------------------------------------------------- helpers

\* the caps of the model: no more waiting pruning passes than MaxPrunes, no
\* lorebook content longer than MaxContent, no vector store longer than
\* MaxStore
WithinBounds(s) ==
    /\ Len(s.prunes) <= MaxPrunes
    /\ \A c \in Chats : Len(s.chat_metadata[c].vector_store) <= MaxStore
    /\ \A i \in 1..Len(s.lorebook) : Len(s.lorebook[i].content) <= MaxContent

\* ------------------------------------------------------------------ init
\* The settings are what the settings panel has stored.  The vector archive
\* is off, as in both `defaults`: archiveMessageAsVector never fetches, a
\* pruning pass never waits, and EmbeddingSettle is not a step of Next.
\* A character is selected or not (ctx.characterId is unset in a group chat).
Configs ==
    [enabled : BOOLEAN, autosummarize : BOOLEAN, threshold : 1..MaxThreshold,
     pruningenabled : {TRUE}, tokenbudget : {200},
     ragenabled : {FALSE}, ragkey : {TRUE},
     lorebooksync : {TRUE}, injectprompt : {TRUE},
     maxsummarylength : {2}, ragdepth : {3}]

\* the engine switched on, with the threshold at its smallest
EngineOnConfigs ==
    {c \in Configs : c.enabled /\ c.autosummarize /\ c.threshold = 1}

\* the same with the pruning setting off: no message is ever excluded
ScopesConfigs == {[c EXCEPT !.pruningenabled = FALSE] : c \in EngineOnConfigs}

InitState ==
    /\ variant \in {"plain", "structured"}
    /\ current = "A"
    /\ chats = [c \in Chats |-> <<>>]
    /\ chat_metadata = [c \in Chats |-> [summary |-> <<>>, last_index |-> 0,
                                         vector_store |-> <<>>]]
    /\ lorebook = <<>>
    /\ isProcessing = FALSE
    /\ runs = <<>>
    /\ prunes = <<>>
    /\ extensionPrompt = <<>>
    /\ lastToast = "none"
    /\ unhandled = FALSE
    /\ retrievals = <<>>
    /\ ragPrompt = <<>>
    /\ timers = <<>>
    /\ request = NoRequest
    /\ plugin = NewPlugin
    /\ debounced = NewDebounced

Init == settings \in Configs /\ characterId \in BOOLEAN /\ InitState

InitScopes == settings \in ScopesConfigs /\ characterId = TRUE /\ InitState

\* --------------------------------------------------------------- actions
\* the host appends a message to the open chat
HostAppendMessage ==
    /\ Len(chats[current]) < MaxMsgs
    /\ \E tokens \in MsgTokens :
           chats' = [chats EXCEPT ![current] =
                         Append(@, [mes |-> tokens, excludefromcontext |-> FALSE])]
    /\ UNCHANGED <<variant, settings, current, characterId, chat_metadata, lorebook,
                   isProcessing, runs, prunes, extensionPrompt, lastToast, unhandled,
                   retrievals, ragPrompt, timers, request, plugin, debounced>>

\* the host opens another chat: ctx.chat and chat_metadata are now the other
\* chat's
ChatChanged ==
    /\ \E c \in Chats \ {current} : current' = c
    /\ UNCHANGED <<variant, settings, characterId, chats, chat_metadata, lorebook,
                   isProcessing, runs, prunes, extensionPrompt, lastToast, unhandled,
                   retrievals, ragPrompt, timers, request, plugin, debounced>>

\* mutant: > in place of >=
ThresholdReached_Strict(s) ==
    /\ getSetting("autosummarize")
    /\ Len(s.chats[current]) - getChatMetadata(s, "last_index") > getSetting("threshold")

\* `chat.length - lastIndex >= threshold` with auto-summarize on
ThresholdReached(s) ==
    /\ getSetting("autosummarize")
    /\ Len(s.chats[current]) - getChatMetadata(s, "last_index") >= getSetting("threshold")

\* USER_MESSAGE_RENDERED / CHARACTER_MESSAGE_RENDERED
onNewMessage ==
    /\ Len(chats[current]) > 0
    /\ \E hangs \in BOOLEAN :
           LET s1 == IF ThresholdReached(St) THEN runSummarization(St, hangs) ELSE St
               s2 == IF getSetting("enabled") THEN handlePruning(s1) ELSE St
           IN  WithinBounds(s2) /\ Becomes(s2)

\* the "summarize now" button: `$("#titan-now").click(() => runSummarization())`
SummarizeNow ==
    /\ \E hangs \in BOOLEAN :
           LET s1 == runSummarization(St, hangs)
           IN  WithinBounds(s1) /\ Becomes(s1)

\* the /endscene slash command of the structured variant
EndScene ==
    /\ variant = "structured"
    /\ \E hangs \in BOOLEAN :
           Becomes(runSummarization(toast(St, "Closing scene and processing memory..."),
                                    hangs))

\* the "wipe" button, with `confirm("Wipe memory?")` answered yes
Wipe ==
    /\ LET s1 == IF variant = "plain" THEN setChatMetadata(St, "summary", <<>>) ELSE St
           s2 == setChatMetadata(s1, "last_index", 0)
           s3 == toast(setChatMetadata(s2, "vector_store", <<>>), "Memory Wiped")
       IN  WithinBounds(s3) /\ Becomes(s3)

\* the "enabled" checkbox of the settings panel is clicked: bindInput's
\* change handler calls setSetting, which stores the value and nothing else
SetEnabled ==
    /\ settings' = [settings EXCEPT !.enabled = ~@]
    /\ UNCHANGED <<variant, current, characterId, chats, chat_metadata, lorebook,
                   isProcessing, runs, prunes, extensionPrompt, lastToast, unhandled,
                   retrievals, ragPrompt, timers, request, plugin, debounced>>

\* the promise of generateRaw settles and runSummarization runs to its end
GenSettleWith(k, outcome) ==
    /\ ~runs[k].hangs
    /\ LET s1 == [St EXCEPT !.runs = RemoveAt(@, k)]
           s2 == Finally(TryGenerate(s1, outcome))
       IN  WithinBounds(s2) /\ Becomes(s2)

GenSettle ==
    \E k \in 1..Len(runs) : \E outcome \in GenOutcomes(runs[k].prompt) :
        GenSettleWith(k, outcome)

\* the embedding fetch of a pruning pass returns (with a vector or without)
\* and the pass runs on to its next fetch or to its end
EmbeddingSettleWith(j, vector) ==
    /\ j \in 1..Len(prunes)
    /\ LET s1 == [St EXCEPT !.prunes = RemoveAt(@, j)]
           s2 == ResumePruning(s1, prunes[j], vector)
       IN  WithinBounds(s2) /\ Becomes(s2)

EmbeddingSettle ==
    \E j \in 1..Len(prunes) : \E vector \in {NoVector} \cup ArchiveVectors :
        EmbeddingSettleWith(j, vector)

\* GENERATION_STARTED: with the extension and the archive on and a user
\* message last in the chat (is_user is the host's, an input of the event),
\* the handler asks for the embedding of that message; an empty chat has no
\* last message and `lastMsg.is_user` throws in the async handler.  Without
\* a fetch (part_003 without a key) getEmbedding returns null at once.
GenerationStarted ==
    /\ getSetting("enabled") /\ getSetting("ragenabled")
    /\ \E is_user \in BOOLEAN :
           IF Len(chats[current]) = 0
           THEN unhandled' = TRUE /\ UNCHANGED <<retrievals, ragPrompt>>
           ELSE IF ~is_user THEN UNCHANGED <<unhandled, retrievals, ragPrompt>>
           ELSE IF ArchiveDoesIO
                THEN /\ Len(retrievals) < MaxRetrievals
                     /\ retrievals' = Append(retrievals,
                                             [query |-> chats[current][Len(chats[current])].mes])
                     /\ UNCHANGED <<unhandled, ragPrompt>>
                ELSE /\ ragPrompt' = InjectRAG(retrieveRAGContext(St, NoVector))
                     /\ UNCHANGED <<unhandled, retrievals>>
    /\ UNCHANGED <<variant, settings, current, characterId, chats, chat_metadata,
                   lorebook, isProcessing, runs, prunes, extensionPrompt, lastToast,
                   timers, request, plugin, debounced>>

\* the embedding fetch of a retrieval returns
RetrieveSettleWith(j, vector) ==
    /\ j \in 1..Len(retrievals)
    /\ retrievals' = RemoveAt(retrievals, j)
    /\ ragPrompt' = InjectRAG(retrieveRAGContext(St, vector))
    /\ UNCHANGED <<variant, settings, current, characterId, chats, chat_metadata,
                   lorebook, isProcessing, runs, prunes, extensionPrompt, lastToast,
                   unhandled, timers, request, plugin, debounced>>

RetrieveSettle ==
    \E j \in 1..Len(retrievals) : \E vector \in {NoVector} \cup Vectors :
        RetrieveSettleWith(j, vector)

\* one conversation, the vector archive off
Next ==
    \/ HostAppendMessage
    \/ onNewMessage
    \/ SummarizeNow
    \/ EndScene
    \/ Wipe
    \/ GenSettle

Spec == Init /\ [][Next]_vars

\* the same engine when the host switches between two conversations
NextScopes ==
    \/ HostAppendMessage
    \/ ChatChanged
    \/ onNewMessage
    \/ SummarizeNow
    \/ EndScene
    \/ Wipe
    \/ GenSettle

SpecScopes == InitScopes /\ [][NextScopes]_vars

\* A promise that is going to settle does settle: GenSettle is enabled only
\* for such a promise.  The events and clicks of the host are under no
\* fairness.
FairSpec == Spec /\ WF_vars(GenSettle)

\* the vector archive switched on: a pruning pass waits for the embedding
\* fetch of every message it archives.  No character is selected (a group
\* chat): the lorebook, which pruning and the archive never read, stays empty
RagConfigs == {[c EXCEPT !.ragenabled = TRUE] : c \in EngineOnConfigs}

InitRag == settings \in RagConfigs /\ characterId = FALSE /\ InitState

NextRag ==
    \/ HostAppendMessage
    \/ onNewMessage
    \/ SummarizeNow
    \/ EndScene
    \/ GenSettle
    \/ EmbeddingSettle

SpecRag == InitRag /\ [][NextRag]_vars

\* the token budgets of the pruning runs: unset (the default applies), below
\* one message, exactly two messages, and one that leaves the structured
\* variant exactly two messages after its reserve
PruneBudgets == {0, 100, 240, 540}

\* pruning on or off, under each budget, the vector archive off
PruneConfigs ==
    [enabled : BOOLEAN, autosummarize : {TRUE}, threshold : {1},
     pruningenabled : BOOLEAN, tokenbudget : PruneBudgets,
     ragenabled : {FALSE}, ragkey : {TRUE},
     lorebooksync : {TRUE}, injectprompt : {TRUE},
     maxsummarylength : {2}, ragdepth : {3}]

InitPrune == settings \in PruneConfigs /\ characterId = TRUE /\ InitState

SpecPrune == InitPrune /\ [][Next]_vars

\* ================================================== per-message summaries
\* The extension of index.js lines 1-445 keeps one summary on each message
\* (message.extensions[extensionName].summary, the empty text when there is
\* none) and injects the summaries of the open chat.  Of the variables it
\* uses settings, current, chats, runs, timers and extensionPrompt (its
\* toastr notices are not kept); a message is [is_user, is_system, mes,
\* summary] and the length of a text is counted in tokens.
get_settings(key) == settings[key]

\* the variables of the engine, which this extension does not have
EngineUnchanged ==
    UNCHANGED <<variant, characterId, chat_metadata, lorebook, isProcessing, prunes,
                unhandled, retrievals, ragPrompt, request, plugin, debounced>>

\* summaries.join('\n') of the summaries chat.forEach has collected
RECURSIVE JoinSummaries(_)
JoinSummaries(chat) ==
    IF chat = <<>> THEN <<>>
    ELSE LET rest == JoinSummaries(Tail(chat))
         IN  IF Head(chat).summary = <<>> THEN rest
             ELSE IF rest = <<>> THEN Head(chat).summary
             ELSE Head(chat).summary \o <<"\n">> \o rest

\* refreshContext: what the injected prompt is after the call
refreshContext(chat, prompt) ==
    IF ~get_settings("enabled") THEN prompt
    ELSE IF \A i \in 1..Len(chat) : chat[i].summary = <<>> THEN <<>>
    ELSE <<"[Past Events:", "\n">> \o JoinSummaries(chat) \o <<"\n", "]">>

\* triggerAutoSummarize up to its call of generateSummaryForMessage: the
\* message `messageLag` before the last one passes every check
targetIndex(chat) == Len(chat) - 1 - get_settings("messageLag")

ShouldSummarize(chat) ==
    /\ get_settings("enabled") /\ get_settings("autoSummarize")
    /\ Len(chat) # 0
    /\ targetIndex(chat) >= 0
    /\ LET targetMsg == chat[targetIndex(chat) + 1]
       IN  /\ ~(targetMsg.is_system /\ ~get_settings("includeSystemMessages"))
           /\ ~(~targetMsg.is_user /\ ~targetMsg.is_system
                  /\ ~get_settings("includeCharacterMessages"))
           /\ ~(targetMsg.is_user /\ ~get_settings("includeUserMessages"))
           /\ targetMsg.summary = <<>>
           /\ Len(targetMsg.mes) >= get_settings("messageThreshold")

\* generateSummaryForMessage up to `await generateQuietPrompt`: the frame
\* keeps the index; `all` marks a call made by the summarize-all loop
SummaryRun(index, all) ==
    [prompt |-> [scope |-> current, index |-> index], hangs |-> FALSE, all |-> all]

\* what generateQuietPrompt resolves with for a prompt
SummaryResults(prompt) ==
    { <<>>, <<prompt.scope>>, <<" ", prompt.scope, "\n">>, <<" ">> }

SummaryOutcomes(prompt) ==
    {[kind |-> "reject"]}
    \cup {[kind |-> "resolve", result |-> r] : r \in SummaryResults(prompt)}

\* the texts of the messages the host appends
MessageTexts == {<<current>>, <<current, current>>}

\* setTimeout(callback, delay)
Timer(fn, delay) == [fn |-> fn, delay |-> delay]

\* the host appends a character's message and emits MESSAGE_RECEIVED
MessageReceived ==
    /\ Len(chats[current]) < MaxMsgs
    /\ \E mes \in MessageTexts :
           chats' = [chats EXCEPT ![current] =
                         Append(@, [is_user |-> FALSE, is_system |-> FALSE,
                                    mes |-> mes, summary |-> <<>>])]
    /\ IF get_settings("autoSummarize")
       THEN /\ Len(timers) < MaxTimers
            /\ timers' = Append(timers, Timer("triggerAutoSummarize", 1000))
       ELSE UNCHANGED timers
    /\ UNCHANGED <<settings, current, runs, extensionPrompt, lastToast>>
    /\ EngineUnchanged

\* the host appends the user's message and emits MESSAGE_SENT
MessageSent ==
    /\ Len(chats[current]) < MaxMsgs
    /\ chats' = [chats EXCEPT ![current] =
                     Append(@, [is_user |-> TRUE, is_system |-> FALSE,
                                mes |-> <<current, current>>, summary |-> <<>>])]
    /\ IF get_settings("autoSummarize") /\ get_settings("includeUserMessages")
       THEN /\ Len(timers) < MaxTimers
            /\ timers' = Append(timers, Timer("triggerAutoSummarize", 1000))
       ELSE UNCHANGED timers
    /\ UNCHANGED <<settings, current, runs, extensionPrompt, lastToast>>
    /\ EngineUnchanged

\* the host opens another chat and emits CHAT_CHANGED
SummariesChatChanged ==
    /\ \E c \in Chats \ {current} : current' = c
    /\ Len(timers) < MaxTimers
    /\ timers' = Append(timers, Timer("refreshContext", 500))
    /\ UNCHANGED <<settings, chats, runs, extensionPrompt, lastToast>>
    /\ EngineUnchanged

\* a timer runs its callback: no timer set earlier with the same or a
\* shorter delay is still waiting
TimerFires ==
    \E k \in 1..Len(timers) :
        /\ \A j \in 1..(k - 1) : timers[j].delay > timers[k].delay
        /\ timers' = RemoveAt(timers, k)
        /\ IF timers[k].fn = "refreshContext"
           THEN /\ extensionPrompt' = refreshContext(chats[current], extensionPrompt)
                /\ UNCHANGED runs
           ELSE /\ IF ShouldSummarize(chats[current])
                   THEN /\ Len(runs) < MaxSummaryRuns
                        /\ runs' = Append(runs, SummaryRun(targetIndex(chats[current]), FALSE))
                   ELSE UNCHANGED runs
                /\ UNCHANGED extensionPrompt
        /\ UNCHANGED <<settings, current, chats, lastToast>>
        /\ EngineUnchanged

\* generateSummaryForMessage resumed after `await generateQuietPrompt`.  A
\* result that is not empty is trimmed and stored on context.chat[index],
\* the message at that index of the chat now open, and the injection is
\* rebuilt; without such a message the assignment throws inside the try.
\* The summarize-all loop then goes on with the next index.
SummarySettleWith(k, outcome) ==
    /\ k \in 1..Len(runs)
    /\ LET index == runs[k].prompt.index
           stores == /\ outcome.kind = "resolve"
                     /\ outcome.result # <<>>
                     /\ index < Len(chats[current])
           chats1 == IF stores
                     THEN [chats EXCEPT ![current][index + 1].summary = Trim(outcome.result)]
                     ELSE chats
           continues == runs[k].all /\ index + 1 < Len(chats[current])
       IN  /\ chats' = chats1
           /\ extensionPrompt' = IF stores
                                  THEN refreshContext(chats1[current], extensionPrompt)
                                  ELSE extensionPrompt
           /\ runs' = IF continues
                       THEN [runs EXCEPT ![k] = SummaryRun(index + 1, TRUE)]
                       ELSE RemoveAt(runs, k)
    /\ UNCHANGED <<settings, current, timers, lastToast>>
    /\ EngineUnchanged

SummarySettle ==
    \E k \in 1..Len(runs) : \E outcome \in SummaryOutcomes(runs[k].prompt) :
        SummarySettleWith(k, outcome)

\* #memory-summarize-all is clicked
SummarizeAll ==
    /\ Len(chats[current]) # 0
    /\ Len(runs) < MaxSummaryRuns
    /\ runs' = Append(runs, SummaryRun(0, TRUE))
    /\ UNCHANGED <<settings, current, chats, timers, extensionPrompt, lastToast>>
    /\ EngineUnchanged

\* #memory-clear-all is clicked
ClearAll ==
    /\ chats' = [chats EXCEPT ![current] =
                     [i \in 1..Len(@) |-> [@[i] EXCEPT !.summary = <<>>]]]
    /\ extensionPrompt' = refreshContext(chats'[current], extensionPrompt)
    /\ UNCHANGED <<settings, current, runs, timers, lastToast>>
    /\ EngineUnchanged

\* #memory-save-btn is clicked
SaveSettings ==
    /\ extensionPrompt' = refreshContext(chats[current], extensionPrompt)
    /\ UNCHANGED <<settings, current, chats, runs, timers, lastToast>>
    /\ EngineUnchanged

\* the summary shown under a message is clicked and the popup is confirmed
\* with another text (here the empty one)
EditSummary ==
    /\ \E i \in 1..Len(chats[current]) :
           /\ chats[current][i].summary # <<>>
           /\ chats' = [chats EXCEPT ![current][i].summary = <<>>]
    /\ extensionPrompt' = refreshContext(chats'[current], extensionPrompt)
    /\ UNCHANGED <<settings, current, runs, timers, lastToast>>
    /\ EngineUnchanged

\* a checkbox of the settings popup is clicked: set_settings stores the
\* value and nothing else
bind_checkbox ==
    /\ \E key \in {"enabled", "autoSummarize"} :
           settings' = [settings EXCEPT ![key] = ~@]
    /\ UNCHANGED <<current, chats, runs, timers, extensionPrompt, lastToast>>
    /\ EngineUnchanged

\* defaultSettings, with the stored values they can have
SummaryConfigs ==
    [enabled : BOOLEAN, autoSummarize : BOOLEAN, messageThreshold : {2},
     messageLag : {0}, includeUserMessages : BOOLEAN,
     includeSystemMessages : {FALSE}, includeCharacterMessages : {TRUE}]

\* the state after the main entry point has run: the first refresh is
\* waiting on its timer
InitSummaries ==
    /\ variant = "permessage"
    /\ settings \in SummaryConfigs
    /\ characterId = TRUE
    /\ current = "A"
    /\ chats = [c \in Chats |-> <<>>]
    /\ chat_metadata = [c \in Chats |-> [summary |-> <<>>, last_index |-> 0,
                                         vector_store |-> <<>>]]
    /\ lorebook = <<>>
    /\ isProcessing = FALSE
    /\ runs = <<>>
    /\ prunes = <<>>
    /\ extensionPrompt = <<>>
    /\ lastToast = "none"
    /\ unhandled = FALSE
    /\ retrievals = <<>>
    /\ ragPrompt = <<>>
    /\ timers = <<Timer("refreshContext", 1000)>>
    /\ request = NoRequest
    /\ plugin = NewPlugin
    /\ debounced = NewDebounced

NextSummaries ==
    \/ MessageReceived
    \/ MessageSent
    \/ TimerFires
    \/ SummarySettle
    \/ ClearAll
    \/ SaveSettings
    \/ EditSummary
    \/ bind_checkbox

SpecSummaries == InitSummaries /\ [][NextSummaries]_vars

\* the vector archive on while the host switches between two conversations;
\* no consolidation is started (auto-summarize off, no click)
RagScopesConfigs ==
    {[c EXCEPT !.ragenabled = TRUE, !.autosummarize = FALSE] : c \in EngineOnConfigs}

InitRagScopes == settings \in RagScopesConfigs /\ characterId = FALSE /\ InitState

NextRagScopes ==
    \/ HostAppendMessage
    \/ ChatChanged
    \/ onNewMessage
    \/ EmbeddingSettle

SpecRagScopes == InitRagScopes /\ [][NextRagScopes]_vars

\* retrieval from an archive that earlier sessions have filled: each entry
\* holds the text of a message and the vector the provider gave for it
RetrieveConfigs ==
    {[c EXCEPT !.ragenabled = TRUE, !.autosummarize = FALSE, !.ragkey = k, !.ragdepth = d]
         : c \in EngineOnConfigs, k \in BOOLEAN, d \in {0, 1}}

Stores ==
    UNION {[1..n -> Vectors] : n \in 0..MaxStore}

InitRetrieve ==
    /\ settings \in RetrieveConfigs
    /\ characterId = FALSE
    /\ variant \in {"plain", "structured"}
    /\ current = "A"
    /\ chats = [c \in Chats |-> <<>>]
    /\ \E vs \in Stores :
           chat_metadata =
               [c \in Chats |->
                   [summary |-> <<>>, last_index |-> 0,
                    vector_store |->
                        IF c = "A"
                        THEN [i \in 1..Len(vs) |-> [text |-> <<"old", i>>, vector |-> vs[i]]]
                        ELSE <<>>]]
    /\ lorebook = <<>>
    /\ isProcessing = FALSE
    /\ runs = <<>>
    /\ prunes = <<>>
    /\ extensionPrompt = <<>>
    /\ lastToast = "none"
    /\ unhandled = FALSE
    /\ retrievals = <<>>
    /\ ragPrompt = <<>>
    /\ timers = <<>>
    /\ request = NoRequest
    /\ plugin = NewPlugin
    /\ debounced = NewDebounced

NextRetrieve ==
    \/ HostAppendMessage
    \/ GenerationStarted
    \/ RetrieveSettle

SpecRetrieve == InitRetrieve /\ [][NextRetrieve]_vars

\* archiving and retrieval side by side, from an empty archive, with a key
\* and without; one entry is asked for
EmbedConfigs ==
    {[c EXCEPT !.ragenabled = TRUE, !.autosummarize = FALSE, !.ragkey = k, !.ragdepth = 1]
         : c \in EngineOnConfigs, k \in BOOLEAN}

InitEmbed == settings \in EmbedConfigs /\ characterId = FALSE /\ InitState

NextEmbed ==
    \/ HostAppendMessage
    \/ onNewMessage
    \/ EmbeddingSettle
    \/ GenerationStarted
    \/ RetrieveSettle

SpecEmbed == InitEmbed /\ [][NextEmbed]_vars

\* the prompt injection on or off beside the lorebook, the extension
\* switched on and off while it runs
InjectConfigs ==
    [enabled : BOOLEAN, autosummarize : {TRUE}, threshold : {1},
     pruningenabled : {TRUE}, tokenbudget : {200},
     ragenabled : {FALSE}, ragkey : {TRUE},
     lorebooksync : {TRUE}, injectprompt : BOOLEAN,
     maxsummarylength : {2}, ragdepth : {3}]

InitInject == settings \in InjectConfigs /\ characterId = TRUE /\ InitState

NextInject ==
    \/ HostAppendMessage
    \/ onNewMessage
    \/ SummarizeNow
    \/ EndScene
    \/ Wipe
    \/ GenSettle
    \/ SetEnabled

SpecInject == InitInject /\ [][NextInject]_vars

\* the per-message extension while the host switches between two stored
\* conversations of one or two messages, with the summarize-all button
SummariesScopesConfigs ==
    {s \in SummaryConfigs : s.enabled /\ s.autoSummarize /\ ~s.includeUserMessages}

InitSummariesScopes ==
    /\ variant = "permessage"
    /\ settings \in SummariesScopesConfigs
    /\ characterId = TRUE
    /\ current = "A"
    /\ \E n \in [Chats -> 1..2] :
           chats = [c \in Chats |->
                       [i \in 1..n[c] |-> [is_user |-> FALSE, is_system |-> FALSE,
                                           mes |-> <<c>>, summary |-> <<>>]]]
    /\ chat_metadata = [c \in Chats |-> [summary |-> <<>>, last_index |-> 0,
                                         vector_store |-> <<>>]]
    /\ lorebook = <<>>
    /\ isProcessing = FALSE
    /\ runs = <<>>
    /\ prunes = <<>>
    /\ extensionPrompt = <<>>
    /\ lastToast = "none"
    /\ unhandled = FALSE
    /\ retrievals = <<>>
    /\ ragPrompt = <<>>
    /\ timers = <<Timer("refreshContext", 1000)>>
    /\ request = NoRequest
    /\ plugin = NewPlugin
    /\ debounced = NewDebounced

NextSummariesScopes ==
    \/ SummariesChatChanged
    \/ TimerFires
    \/ SummarySettle
    \/ SummarizeAll

SpecSummariesScopes == InitSummariesScopes /\ [][NextSummariesScopes]_vars

\* either extension, each with the handlers that rebuild its injection
InitRefresh == InitInject \/ InitSummaries

NextRefresh ==
    \/ variant # "permessage" /\ NextInject
    \/ variant = "permessage" /\ NextSummaries

SpecRefresh == InitRefresh /\ [][NextRefresh]_vars

\* ================================================================ claims
\* summary and cursor of every scope, and the entities
Memory ==
    <<[c \in Chats |-> <<chat_metadata[c].summary, chat_metadata[c].last_index>>],
      lorebook>>

\* len(messages) - consolidatedCursor of the open chat
Pending == Len(chats[current]) - chat_metadata[current].last_index

\* the toasts of a commit
CommitToasts == {"Memory updated successfully"} \cup {UpdatedToast(n) : n \in 1..3}

\* a step that calls generateRaw
StartsGeneration == Len(runs') = Len(runs) + 1

\* C1: at most one generateRaw call is in flight at any time, and while one is
\* in flight every step either leaves it in flight alone or ends it with no
\* other call started: triggers that arrive meanwhile are dropped, not queued.
C1_AtMostOneGenerationInFlight ==
    /\ [](Len(runs) <= 1)
    /\ [][Len(runs) = 1 => (runs' = runs \/ runs' = <<>>)]_vars

\* C1 witness: a call is in flight, a message has arrived since its prompt was
\* built and the threshold is reached again: the trigger has been dropped.
C1_Witness ==
    /\ Len(runs) = 1
    /\ Len(chats[current]) > runs[1].prompt.to
    /\ getSetting("enabled") /\ getSetting("autosummarize")
    /\ Pending >= getSetting("threshold")

\* C2: the step in which generateRaw rejects or resolves to an empty result,
\* and the step that starts a run, leave the summary and the cursor of every
\* scope and the lorebook entries as they were.
C2_NoPartialCommitOnFailure ==
    [][ ( \/ StartsGeneration
          \/ \E k \in 1..Len(runs) : \E o \in GenOutcomes(runs[k].prompt) :
                 /\ GenSettleWith(k, o)
                 /\ \/ o.kind = "reject"
                    \/ o.kind = "resolve" /\
                           IF variant = "plain" THEN o.result = <<>> ELSE o.result.empty )
        => Memory' = Memory ]_vars

\* C2 witness: an attempt has failed after an earlier one had committed.
C2_Witness ==
    /\ lastToast = "Summarization failed:"
    /\ ~isProcessing
    /\ chat_metadata[current].last_index > 0

\* C3: isProcessing is set only while a generateRaw call is in flight: every
\* way out of runSummarization has cleared it.
C3_FlagClearedOnEveryExit == isProcessing => Len(runs) >= 1

\* C3 witness: after a failed attempt a new generation call is in flight.
C3_Witness ==
    /\ variant = "plain"
    /\ lastToast = "Summarization failed:"
    /\ Len(runs) = 1

\* C4: whenever a consolidation is in progress the engine returns to Idle,
\* also when generateRaw never settles (the timeout ends the attempt).
C4_TimeoutReturnsToIdle == isProcessing ~> ~isProcessing

\* C5: a commit sets the cursor to the message count captured when the run
\* was triggered (the end of the slice in the prompt).
C5_CursorIsTriggerTimeLength ==
    [][ \A k \in 1..Len(runs) : \A o \in GenOutcomes(runs[k].prompt) :
            (GenSettleWith(k, o) /\ lastToast' \in CommitToasts)
            => chat_metadata'[current].last_index = runs[k].prompt.to ]_vars

\* C6: the cursor of a scope is at most the number of its messages.
C6_CursorWithinMessages ==
    \A c \in Chats : chat_metadata[c].last_index <= Len(chats[c])

\* C6 witness: a commit has moved the cursor to the end of a non-empty chat.
C6_Witness ==
    /\ lastToast \in CommitToasts
    /\ chat_metadata[current].last_index = Len(chats[current])
    /\ Len(chats[current]) > 1

\* C7: a step that lowers the cursor of a scope is a wipe.
C7_CursorNeverDecreasesExceptWipe ==
    [][ (\E c \in Chats : chat_metadata'[c].last_index < chat_metadata[c].last_index)
        => Wipe ]_vars

\* C7 witness: a second consolidation is in flight after a first one has
\* moved the cursor.
C7_Witness ==
    /\ Len(runs) = 1
    /\ runs[1].prompt.from > 0
    /\ chat_metadata[current].last_index = runs[1].prompt.from

\* C8: the end of a run writes the summary and the cursor of no scope but the
\* one whose messages were in its prompt.
C8_NoCrossScopeWrite ==
    [][ \A k \in 1..Len(runs) : \A o \in GenOutcomes(runs[k].prompt) :
            GenSettleWith(k, o)
            => \A c \in Chats \ {runs[k].prompt.scope} :
                   chat_metadata'[c] = chat_metadata[c] ]_vars

\* C9 as claimed: a new-message event starts a consolidation whenever
\* auto-summarize is on, pending >= threshold and the engine is idle.
C9_TriggerIffThresholdAndIdle ==
    (/\ Len(chats[current]) > 0
     /\ getSetting("autosummarize")
     /\ Pending >= getSetting("threshold")
     /\ ~isProcessing)
    => ENABLED (onNewMessage /\ StartsGeneration)

\* C9 amended: a new-message event starts a consolidation if and only if the
\* extension is enabled, auto-summarize is on, pending >= threshold and the
\* engine is idle; an event with pending < threshold makes no generation call
\* and leaves the memory unchanged.
C9_TriggerIffEnabledThresholdAndIdle ==
    /\ []( (/\ Len(chats[current]) > 0
            /\ getSetting("enabled") /\ getSetting("autosummarize")
            /\ Pending >= getSetting("threshold")
            /\ ~isProcessing)
           => ENABLED (onNewMessage /\ StartsGeneration) )
    /\ [][ onNewMessage =>
             /\ StartsGeneration =>
                    /\ getSetting("enabled") /\ getSetting("autosummarize")
                    /\ Pending >= getSetting("threshold")
                    /\ ~isProcessing
             /\ Pending < getSetting("threshold") => (runs' = runs /\ Memory' = Memory)
         ]_vars

\* C9 witness: with threshold 2 a run is in flight whose prompt holds two new
\* messages.
C9_Witness ==
    /\ getSetting("enabled") /\ getSetting("autosummarize")
    /\ getSetting("threshold") = 2
    /\ Len(runs) = 1
    /\ runs[1].prompt.to - runs[1].prompt.from >= 2

\* C10: the button and /endscene start a generation call whenever the engine
\* is idle and a message is unconsolidated, whatever the threshold; while a
\* consolidation is in flight they change neither the flag, the calls in
\* flight nor the memory.
C10_ManualBypassesThresholdNotIdleGuard ==
    /\ []( (~isProcessing /\ Pending >= 1) => ENABLED (SummarizeNow /\ StartsGeneration) )
    /\ []( (~isProcessing /\ Pending >= 1 /\ variant = "structured")
           => ENABLED (EndScene /\ StartsGeneration) )
    /\ [][ (SummarizeNow \/ EndScene) =>
             /\ StartsGeneration => (~isProcessing /\ Pending >= 1)
             /\ isProcessing => (isProcessing' /\ runs' = runs /\ Memory' = Memory)
         ]_vars

\* C10 witness: a run is in flight that holds fewer new messages than the
\* threshold: only a manual trigger starts it.
C10_Witness ==
    /\ Len(runs) = 1
    /\ runs[1].prompt.to - runs[1].prompt.from < getSetting("threshold")

\* the step marks message i (0-based) of chat c excluded for the first time
NewlyExcluded(c, i) ==
    /\ i < Len(chats[c])
    /\ ~chats[c][i + 1].excludefromcontext
    /\ chats'[c][i + 1].excludefromcontext

\* C11: a step never newly excludes a message that is not yet consolidated:
\* every message a pruning pass hides has an index below the cursor of its
\* chat (with a continuity buffer of 0, the weakest reading of the claim).
C11_UnconsolidatedStayVisible ==
    [][ \A c \in Chats : \A i \in 0..(MaxMsgs - 1) :
            NewlyExcluded(c, i) => i < chat_metadata'[c].last_index ]_vars

\* the messages whose text has been handed to archiveMessageAsVector: once
\* per fetch that is waiting, once per entry that reached a store
Forwarded ==
    LET stored == chat_metadata["A"].vector_store \o chat_metadata["B"].vector_store
    IN  [j \in 1..Len(prunes) |-> prunes[j].text]
        \o [j \in 1..Len(stored) |-> stored[j].text]

\* C12: whatever the interleaving of the pruning passes, no message's text is
\* handed to the vector archive twice.
C12_ArchivedAtMostOnce ==
    \A j, k \in 1..Len(Forwarded) : Forwarded[j] = Forwarded[k] => j = k

\* message i (0-based) takes part in the backwards count: the structured
\* variant passes over the messages already excluded
Counted(chat, i) == variant = "plain" \/ ~chat[i + 1].excludefromcontext

\* the estimated tokens of the counted messages from index i to the newest
RECURSIVE RunningTotal(_, _)
RunningTotal(chat, i) ==
    IF i >= Len(chat) THEN 0
    ELSE (IF Counted(chat, i) THEN chat[i + 1].mes ELSE 0) + RunningTotal(chat, i + 1)

\* the first index, walking from the newest message to the oldest, at which
\* the running total exceeds the budget; -1 when it never does
BudgetCutoff(chat) ==
    LET over == {i \in 0..(Len(chat) - 1) :
                     Counted(chat, i) /\ RunningTotal(chat, i) > PruneBudget}
    IN  IF over = {} THEN -1 ELSE CHOOSE i \in over : \A j \in over : j <= i

\* pruning is switched on
PruningOn == getSetting("enabled") /\ getSetting("pruningenabled")

\* C13: a pruning pass (run by a new-message event and at the end of a
\* consolidation) marks exactly the messages at or before the first index p,
\* walking from the newest message back, at which the running total exceeds
\* the budget: after the pass a message is excluded iff it was excluded
\* before or its index is <= p; when the total never exceeds the budget no
\* message is newly excluded.  And the pass does act: while a message at or
\* before p is not yet excluded, a new-message event changes the chat.
C13_PruneExactlyUpToCutoff ==
    /\ [][ ((onNewMessage \/ GenSettle) /\ PruningOn)
           => LET chat == chats[current]
                  p == BudgetCutoff(chat)
              IN  /\ Len(chats'[current]) = Len(chat)
                  /\ \A i \in 0..(Len(chat) - 1) :
                         chats'[current][i + 1].excludefromcontext
                         <=> (chat[i + 1].excludefromcontext \/ i <= p) ]_vars
    /\ []( ( /\ PruningOn
             /\ \E i \in 0..BudgetCutoff(chats[current]) :
                    ~chats[current][i + 1].excludefromcontext )
           => ENABLED (onNewMessage /\ chats' # chats) )

\* C13 witness: a budget of exactly two messages and a chat of three, of
\* which a pass has excluded the oldest and no other.
C13_Witness ==
    /\ PruneBudget = 240
    /\ Len(chats[current]) = 3
    /\ chats[current][1].excludefromcontext
    /\ ~chats[current][2].excludefromcontext
    /\ ~chats[current][3].excludefromcontext

\* the texts of the messages of every chat, in their order
Texts == [c \in Chats |-> [i \in 1..Len(chats[c]) |-> chats[c][i].mes]]

\* C14: no step but the host's own append changes the number, the order or
\* the text of the messages of a chat, and the steps of a pruning pass outside
\* a consolidation (a new-message event, an embedding fetch returning) leave
\* the summary, the cursor and the entities alone as well: of a message a
\* pass changes the excluded flag and nothing else.
C14_PruningOnlySetsFlag ==
    /\ [][ HostAppendMessage \/ Texts' = Texts ]_vars
    /\ [][ (onNewMessage \/ EmbeddingSettle) => Memory' = Memory ]_vars

\* C14 witness: a pass has archived and excluded the oldest message of a chat
\* that still holds every message.
C14_Witness ==
    /\ Len(chats[current]) >= 2
    /\ chats[current][1].excludefromcontext
    /\ chat_metadata[current].vector_store # <<>>

\* sub occurs in text as one piece
Contains(text, sub) ==
    \E a \in 0..(Len(text) - Len(sub)) : SubSeq(text, a + 1, a + Len(sub)) = sub

\* text starts with pre
StartsWith(text, pre) == Len(pre) <= Len(text) /\ SubSeq(text, 1, Len(pre)) = pre

\* two titles are equal ignoring case
SameIgnoringCase(a, b) == a = b \/ {a, b} = {"Alice", "alice"}

\* triple j of a generated result has a name and a content
Usable(triples, j) == triples[j].title # "" /\ triples[j].content # <<>>

\* the run frame k ends with outcome o in the structured variant, with a
\* result that is not empty
StructuredSettle(k, o) ==
    /\ variant = "structured"
    /\ o.kind = "resolve" /\ ~o.result.empty
    /\ GenSettleWith(k, o)

\* C15: when a usable triple is merged into the entity that bears its title,
\* the entity's content is left as it was if it already contains the new
\* content, and otherwise keeps what it held and gains the new content.
C15_MergeIsNonDestructive ==
    [][ \A k \in 1..Len(runs) : \A o \in GenOutcomes(runs[k].prompt) :
            StructuredSettle(k, o) =>
                \A j \in 1..Len(o.result.triples) : \A i \in 1..Len(lorebook) :
                    ( /\ characterId
                      /\ Usable(o.result.triples, j)
                      /\ SameIgnoringCase(lorebook[i].displayName, o.result.triples[j].title) )
                    => IF Contains(lorebook[i].content, o.result.triples[j].content)
                       THEN lorebook'[i].content = lorebook[i].content
                       ELSE /\ StartsWith(lorebook'[i].content, lorebook[i].content)
                            /\ Contains(lorebook'[i].content, o.result.triples[j].content)
      ]_vars

\* the elements of a sequence
Range(seq) == {seq[a] : a \in 1..Len(seq)}

\* C16: when a usable triple is merged into the entity that bears its title,
\* every keyword the entity had is still one of its keywords, every keyword
\* of the triple is one too, and no keyword is held twice.
C16_MergeUnionsKeywords ==
    [][ \A k \in 1..Len(runs) : \A o \in GenOutcomes(runs[k].prompt) :
            StructuredSettle(k, o) =>
                \A j \in 1..Len(o.result.triples) : \A i \in 1..Len(lorebook) :
                    ( /\ characterId
                      /\ Usable(o.result.triples, j)
                      /\ SameIgnoringCase(lorebook[i].displayName, o.result.triples[j].title) )
                    => LET keys == lorebook'[i].keys
                       IN  /\ Range(lorebook[i].keys) \subseteq Range(keys)
                           /\ Range(SplitComma(o.result.triples[j].keywords)) \ {<<>>}
                                  \subseteq Range(keys)
                           /\ \A a, b \in 1..Len(keys) : keys[a] = keys[b] => a = b
      ]_vars

\* C17: the lorebook never holds two entries whose titles are equal ignoring
\* case, and a consolidation never removes or renames an entry: a triple
\* whose title matches an entry updates that entry.
C17_TitlesUniqueIgnoringCase ==
    /\ [](\A i, j \in 1..Len(lorebook) :
              SameIgnoringCase(lorebook[i].displayName, lorebook[j].displayName) => i = j)
    /\ [][ /\ Len(lorebook') >= Len(lorebook)
           /\ \A i \in 1..Len(lorebook) :
                  lorebook'[i].displayName = lorebook[i].displayName ]_vars

\* C17 witness: the entity created as "alice" has been updated by a triple
\* named "Alice" (the only one that brings the keywords c,d).
C17_Witness ==
    \E i \in 1..Len(lorebook) :
        /\ lorebook[i].displayName = "alice"
        /\ lorebook[i].keys = <<<<"c">>, <<"d">>>>
        /\ Contains(lorebook[i].content, <<"\n">>)

\* text ends with post
EndsWith(text, post) ==
    Len(post) <= Len(text) /\ SubSeq(text, Len(text) - Len(post) + 1, Len(text)) = post

\* the triples of a result that have a name and a content
UsableTriples(triples) == {j \in 1..Len(triples) : Usable(triples, j)}

\* C18: of the triples of a generated result, those without a name or without
\* a content are passed over and the others are each merged, whatever comes
\* before them: the count the parse reports is the number of triples that
\* have both, and (a character being selected) each of these has reached the
\* entity that bears its title.  A result without such a triple reports
\* nothing and leaves the entities as they were.
C18_MalformedTriplesAreSkipped ==
    [][ \A k \in 1..Len(runs) : \A o \in GenOutcomes(runs[k].prompt) :
            StructuredSettle(k, o) =>
                LET triples == o.result.triples
                    n == Cardinality(UsableTriples(triples))
                IN  /\ n > 0 => lastToast' = UpdatedToast(n)
                    /\ n = 0 => (lastToast' \notin CommitToasts /\ lorebook' = lorebook)
                    /\ characterId =>
                           \A j \in UsableTriples(triples) :
                               \E i \in 1..Len(lorebook') :
                                   /\ SameIgnoringCase(lorebook'[i].displayName, triples[j].title)
                                   /\ EndsWith(lorebook'[i].content, triples[j].content)
      ]_vars

\* C18 witness: a result of three triples, the second without content, has
\* been parsed: two entities are reported and the third triple's entity, Bob,
\* is in the lorebook.
C18_Witness ==
    /\ lastToast = UpdatedToast(2)
    /\ \E i \in 1..Len(lorebook) : lorebook[i].displayName = "Bob"

\* the cursor of every scope
Cursors == [c \in Chats |-> chat_metadata[c].last_index]

\* C19: in the structured variant a generated result without a usable triple
\* leaves the cursor of every scope and the entities as they were, and a step
\* that advances a cursor is the end of a run whose result held at least one
\* usable triple.
C19_NoTriplesNoCommit ==
    [][ variant = "structured" =>
          /\ \A k \in 1..Len(runs) : \A o \in GenOutcomes(runs[k].prompt) :
                 (StructuredSettle(k, o) /\ UsableTriples(o.result.triples) = {})
                 => (Cursors' = Cursors /\ lorebook' = lorebook)
          /\ (\E c \in Chats : Cursors'[c] > Cursors[c])
             => \E k \in 1..Len(runs) : \E o \in GenOutcomes(runs[k].prompt) :
                    StructuredSettle(k, o) /\ UsableTriples(o.result.triples) # {}
      ]_vars

\* C19 witness: after an earlier commit a run has ended with a result that
\* held no usable triple (no toast since the one of its start): the new
\* messages are still pending.
C19_Witness ==
    /\ variant = "structured"
    /\ lastToast = "Updating Memory Banks..."
    /\ runs = <<>> /\ ~isProcessing
    /\ chat_metadata[current].last_index > 0
    /\ Pending > 0

\* C20: in the plain variant a step that advances the cursor of a scope
\* leaves that scope with a summary that is not empty: a result with no
\* summary text left after the labels and the KEYWORDS part are taken away
\* commits nothing.
C20_CommitNeverStoresEmptySummary ==
    [][ variant = "plain" =>
          \A c \in Chats :
              Cursors'[c] > Cursors[c] => chat_metadata'[c].summary # <<>> ]_vars

\* C21: the summary stored for a scope is never longer than the
\* maxsummarylength setting.  (A token stands for at least one character, so
\* a summary of more tokens than the setting has more characters too.)
C21_SummaryWithinMaxLength ==
    \A c \in Chats : Len(chat_metadata[c].summary) <= getSetting("maxsummarylength")

\* C22: the wipe leaves the open scope with an empty summary, the cursor at
\* 0, an empty vector store and, in the structured variant, no entity.
C22_WipeEmptiesMemory ==
    [][ Wipe =>
          /\ chat_metadata'[current].summary = <<>>
          /\ chat_metadata'[current].last_index = 0
          /\ chat_metadata'[current].vector_store = <<>>
          /\ variant = "structured" => lorebook' = <<>> ]_vars

\* C29: once the wipe handler has run, the injected prompt does not contain
\* the summary the wipe has removed.
C29_WipeRemovesInjectedSummary ==
    [][ (Wipe /\ chat_metadata[current].summary # <<>>)
        => ~Contains(extensionPrompt', chat_metadata[current].summary) ]_vars

\* a run is in flight that was started before the memory of the open chat
\* was wiped: its prompt begins at a cursor the chat no longer has (only a
\* wipe lowers the cursor)
WipedInFlight(k) ==
    /\ runs[k].prompt.scope = current
    /\ runs[k].prompt.from > chat_metadata[current].last_index

\* C30: the end of a consolidation that was in flight when the memory was
\* wiped leaves the summary empty and the cursor at 0.
C30_WipeNotUndoneByInFlightRun ==
    [][ \A k \in 1..Len(runs) : \A o \in GenOutcomes(runs[k].prompt) :
            (WipedInFlight(k) /\ GenSettleWith(k, o))
            => /\ chat_metadata'[current].summary = <<>>
               /\ chat_metadata'[current].last_index = 0 ]_vars


\* the injection text that belongs to a stored summary under the settings in
\* force: the summary between the brackets of the story-memory block, and
\* nothing when the summary is empty, the extension is disabled or the
\* injection is switched off beside the lorebook
InjectionOf(summary) ==
    IF \/ summary = <<>>
       \/ ~settings.enabled
       \/ (settings.lorebooksync /\ ~settings.injectprompt)
    THEN <<>>
    ELSE <<"[Story Memory:">> \o summary \o <<"]">>

\* C27: in the plain variant, the step that ends a consolidation attempt
\* (the generation has returned, committed or failed) starts a pruning pass
\* and rebuilds the injection: after the step every message at or before the
\* budget cutoff is excluded when pruning is on, and the injected text is the
\* one derived from the summary that is stored after the step.
C27_AttemptEndRebuildsInjection ==
    [][ (GenSettle /\ variant = "plain")
        => /\ extensionPrompt' = InjectionOf(chat_metadata'[current].summary)
           /\ PruningOn
              => \A i \in 0..BudgetCutoff(chats[current]) :
                     chats'[current][i + 1].excludefromcontext ]_vars

\* C27 witness: a plain consolidation has committed the summary "A" over two
\* messages; the attempt has ended, the oldest message is pruned and the
\* injected text carries the committed summary.
C27_Witness ==
    /\ variant = "plain"
    /\ runs = <<>>
    /\ chat_metadata[current].summary = <<"A">>
    /\ chat_metadata[current].last_index = 2
    /\ chats[current][1].excludefromcontext
    /\ extensionPrompt = <<"[Story Memory:", "A", "]">>


\* C26: no entry point of the engine lets an exception or a rejected promise
\* reach the host: whatever the generation, the embedding fetch and the chat
\* do, no call of onNewMessage, runSummarization or handlePruning ends in an
\* error that nothing catches.
C26_NothingEscapesToHost == ~unhandled


\* the entries of the open chat's archive, and the number asked for
Archive == chat_metadata[current].vector_store
RetrievalDepth == IF settings.ragdepth = 0 THEN 3 ELSE settings.ragdepth

\* entry i of the archive scores at least 0.7 against the query vector q:
\* dot / sqrt(magQ * magI) >= 7 / 10, with no negative dot product
Qualifies(q, i) ==
    LET v == Archive[i].vector
    IN  100 * Dot(q, v, 4) * Dot(q, v, 4) >= 49 * Dot(q, q, 4) * Dot(v, v, 4)

\* entry i is ranked before entry j: it scores higher, or it scores the same
\* and was archived earlier
RankedBefore(q, i, j) ==
    LET vi == Archive[i].vector
        vj == Archive[j].vector
        si == Dot(q, vi, 4) * Dot(q, vi, 4) * Dot(vj, vj, 4)
        sj == Dot(q, vj, 4) * Dot(q, vj, 4) * Dot(vi, vi, 4)
    IN  si > sj \/ (si = sj /\ i < j)

\* the texts of the k best-scoring entries among those that qualify, best
\* first
BestQualifying(q, k) ==
    LET Q == {i \in 1..Len(Archive) : Qualifies(q, i)}
        rank(i) == Cardinality({j \in Q : RankedBefore(q, j, i)})
        n == IF k < Cardinality(Q) THEN k ELSE Cardinality(Q)
    IN  [r \in 1..n |-> Archive[CHOOSE i \in Q : rank(i) = r - 1].text]

\* the texts in an injected block of retrieved memories, in their order
RetrievedTexts(prompt) == [r \in 1..((Len(prompt) - 1) \div 2) |-> prompt[2 * r]]

\* C24: a retrieval whose query has an embedding returns exactly the k
\* best-scoring entries among those whose similarity score is >= 0.7, in
\* descending order of score, entries of equal score in the order they were
\* archived: these are the texts injected as retrieved memories (the
\* structured variant injects nothing new when nothing is returned).
C24_RetrievalReturnsBestQualifying ==
    [][ \A j \in 1..MaxRetrievals : \A q \in Vectors :
            RetrieveSettleWith(j, q)
            => LET best == BestQualifying(q, RetrievalDepth)
               IN  (variant = "plain" \/ best # <<>>)
                   => RetrievedTexts(ragPrompt') = best ]_vars


\* the archive of every chat
Stored == [c \in Chats |-> chat_metadata[c].vector_store]

\* C25: a failed embedding call fails nothing else.  When the fetch of a
\* retrieval returns no vector (network error, malformed response) the
\* retrieval returns an empty result: nothing is injected as retrieved
\* memories (part_003 clears the block, the structured variant leaves it as
\* it was).  When the fetch of an archiving returns no vector the vector
\* store is unchanged and the pruning pass goes on.  Without a key part_003
\* fetches nothing: a retrieval ends at once with an empty result and a
\* pruning pass archives nothing.  None of these steps ends in an error that
\* reaches the host.
C25_EmbeddingFailureIsHarmless ==
    [][ /\ \A j \in 1..MaxRetrievals :
               RetrieveSettleWith(j, NoVector)
               => /\ ragPrompt' = (IF variant = "plain" THEN <<>> ELSE ragPrompt)
                  /\ Stored' = Stored
                  /\ unhandled' = unhandled
        /\ \A j \in 1..MaxPrunes :
               EmbeddingSettleWith(j, NoVector)
               => /\ Stored' = Stored
                  /\ unhandled' = unhandled
                  /\ chats'[current][prunes[j].i + 1].excludefromcontext
        /\ (variant = "plain" /\ ~settings.ragkey)
               => /\ Stored' = Stored
                  /\ retrievals' = <<>> /\ prunes' = <<>>
                  /\ GenerationStarted /\ chats[current] # <<>> => ragPrompt' = <<>>
                  /\ onNewMessage => unhandled' = unhandled ]_vars

\* C25 witness: in part_003 with a key, the embedding fetch for the oldest
\* message has returned no vector: the message is excluded and the archive
\* of the chat is still empty.
C25_Witness ==
    /\ variant = "plain" /\ settings.ragkey
    /\ chats[current] # <<>>
    /\ chats[current][1].excludefromcontext
    /\ chat_metadata[current].vector_store = <<>>
    /\ ~unhandled


\* C23: building the injection is idempotent and touches nothing else.  In
\* every reachable state, calling refreshMemoryInjection (part_003) changes
\* at most the injected text and a second call changes nothing more; the
\* same holds for refreshContext of the per-message extension, whose result
\* a second call over the same chat and settings leaves as it is.
C23_RefreshIsIdempotent ==
    /\ variant = "plain"
           => LET once == refreshMemoryInjection(St)
              IN  /\ refreshMemoryInjection(once) = once
                  /\ [once EXCEPT !.extensionPrompt = extensionPrompt] = St
    /\ variant = "permessage"
           => LET once == refreshContext(chats[current], extensionPrompt)
              IN  refreshContext(chats[current], once) = once

\* C23 witness: part_003 has committed the summary "A" and injected it; a
\* further refresh finds the text it would inject already there.
C23_Witness ==
    /\ variant = "plain"
    /\ chat_metadata[current].summary = <<"A">>
    /\ extensionPrompt = <<"[Story Memory:", "A", "]">>
    /\ refreshMemoryInjection(St) = St

\* a step in which the extension rebuilds its injection
RefreshRuns ==
    \/ variant = "plain" /\ GenSettle
    \/ variant = "permessage" /\ (SaveSettings \/ ClearAll \/ EditSummary)

\* C28: when the extension is disabled, a refresh of the injection leaves
\* no memory text injected: after a step that runs refreshMemoryInjection or
\* refreshContext with enabled = false the injected prompt is empty,
\* whatever was injected before.
C28_DisabledRefreshClearsInjection ==
    [][ (RefreshRuns /\ ~settings.enabled) => extensionPrompt' = <<>> ]_vars

\* the estimated tokens of the messages of a chat that are not excluded
RECURSIVE VisibleTokens(_)
VisibleTokens(chat) ==
    IF chat = <<>> THEN 0
    ELSE (IF Head(chat).excludefromcontext THEN 0 ELSE Head(chat).mes)
         + VisibleTokens(Tail(chat))

\* C31: after a step that runs a pruning pass to its end (a new-message
\* event, the end of a consolidation; no embedding fetch to wait for), the
\* estimated tokens of the messages left visible sum to no more than the
\* budget of the pass: tokenbudget in the plain variant, max(200,
\* tokenbudget - 300) in the structured one.
C31_VisibleWithinBudgetAfterPass ==
    [][ ((onNewMessage \/ GenSettle) /\ PruningOn)
        => VisibleTokens(chats'[current]) <= PruneBudget ]_vars

\* C31 witness: a pass has excluded the oldest of three messages and the two
\* left visible fill the budget of 240 exactly.
C31_Witness ==
    /\ PruningOn
    /\ Len(chats[current]) = 3
    /\ chats[current][1].excludefromcontext
    /\ VisibleTokens(chats[current]) = 240
    /\ VisibleTokens(chats[current]) = PruneBudget

\* C32: in every reachable state, in the middle of overlapping pruning
\* passes as well, the excluded messages of a chat are a prefix of it (when
\* message i is excluded so is every message before it), and no step clears
\* an excluded flag.
C32_ExcludedIsPrefixAndKept ==
    /\ [](\A c \in Chats : \A i \in 1..Len(chats[c]) : \A j \in 1..(i - 1) :
              chats[c][i].excludefromcontext => chats[c][j].excludefromcontext)
    /\ [][ \A c \in Chats : \A i \in 1..Len(chats[c]) :
              chats[c][i].excludefromcontext
              => (Len(chats'[c]) >= i /\ chats'[c][i].excludefromcontext) ]_vars

\* C33: with the vector archive on, every message that pruning has excluded
\* has an entry with its text in the vector store of its chat, whatever the
\* embedding fetch returned.
C33_ExcludedIsArchived ==
    settings.ragenabled
    => \A c \in Chats : \A i \in 1..Len(chats[c]) :
           chats[c][i].excludefromcontext
           => \E e \in 1..Len(chat_metadata[c].vector_store) :
                  chat_metadata[c].vector_store[e].text = <<c, i - 1>>

\* C34: the per-message extension asks for at most one summary of a message.
\* When a timer set by MESSAGE_RECEIVED or MESSAGE_SENT runs
\* triggerAutoSummarize and a generation is started for a message, no other
\* generation for that message is in flight and no summary is stored on it.
C34_OneGenerationPerMessage ==
    [][ (variant = "permessage" /\ TimerFires /\ Len(runs') > Len(runs))
        => LET started == runs'[Len(runs')].prompt
           IN  /\ \A k \in 1..Len(runs) : runs[k].prompt # started
               /\ chats[started.scope][started.index + 1].summary = <<>> ]_vars

\* C35: a generated summary is stored only on the message whose text was in
\* the prompt.  When the generation of a summary returns, the only summary
\* that changes, if any, is that of the message (chat and index) the
\* generation was started for, also when the host has opened another chat
\* in the meantime.
C35_SummaryStoredOnPromptedMessage ==
    [][ \A k \in 1..MaxSummaryRuns :
            (k <= Len(runs) /\ \E o \in SummaryOutcomes(runs[k].prompt) : SummarySettleWith(k, o))
            => \A c \in Chats : \A i \in 1..Len(chats[c]) :
                   chats'[c][i].summary # chats[c][i].summary
                   => (c = runs[k].prompt.scope /\ i = runs[k].prompt.index + 1) ]_vars

\* the attempts of the call under way that reached fetch
Fetches == {i \in 1..Len(request.log) : request.log[i] # "stringify"}

\* C36: makeRequest performs at most `retries` (3) fetch attempts, none
\* after the first successful one, whose parsed body it returns, and it
\* throws the last error only after all attempts have failed.
C36_AtMostRetriesAttempts ==
    request.class = "retry"
    => /\ Cardinality(Fetches) <= 3
       /\ Len(request.log) <= 3
       /\ \A i \in 1..(Len(request.log) - 1) : request.log[i] \notin Bodies \cup {"pending"}
       /\ \A i \in 1..Len(request.log) :
              request.log[i] \in Bodies
              => /\ request.status = "returned"
                 /\ request.method = "makeRequest" => request.value = request.log[i]
       /\ (request.method = "makeRequest" /\ request.status = "returned")
              => request.log # <<>> /\ request.log[Len(request.log)] \in Bodies
       /\ request.status = "thrown"
              => /\ request.method = "makeRequest"
                 /\ Len(request.log) = 3
                 /\ \A i \in 1..3 : request.log[i] \notin Bodies \cup {"pending"}
                 /\ request.value = request.log[3]

\* makeRequest threw the error of its third attempt after three failed
\* fetches
C36_Witness ==
    /\ request.method = "makeRequest"
    /\ request.log = <<"reject", "notOk", "badJson">>
    /\ request.status = "thrown" /\ request.value = "badJson"

\* the request of the call was made and no attempt got an answer the
\* method could use: every fetch was rejected or not ok, or (where the
\* method reads the body) the body could not be parsed
FailedEveryTime ==
    /\ request.log # <<>>
    /\ \A i \in 1..Len(request.log) :
           IF request.class = "simple" /\ request.method # "fetchMemory"
           THEN request.log[i] \in {"reject", "notOk"}
           ELSE request.log[i] \in {"reject", "notOk", "badJson", "stringify"}

\* an argument the method declares required was not given
RequiredMissing ==
    /\ request.class = "retry"
    /\ \/ request.method \in {"fetchMemory", "saveMemory"} /\ ~request.characterId
       \/ request.method = "saveMemory" /\ request.data = "none"

\* C37: fetchMemory, saveMemory and testConnection never throw; when the
\* request fails on every retry, or a required argument or the endpoint is
\* missing, fetchMemory returns null and saveMemory and testConnection
\* return false.
C37_NeverThrowsNullOrFalse ==
    request.method \in {"fetchMemory", "saveMemory", "testConnection"}
    => /\ request.status # "thrown"
       /\ (request.status = "returned"
           /\ (FailedEveryTime \/ RequiredMissing \/ ~request.endpoint))
          => request.value = (IF request.method = "fetchMemory" THEN "null" ELSE "false")

\* C38: every message summarizeMemory removes from memoryBuffer was part of
\* the text passed to a summarization that returned a summary: when the
\* summarizer returns null or throws the buffer is unchanged, and a message
\* pushed while a summarization was pending is removed only if it was in
\* the text of a summarization itself.
C38_RemovedWasSummarized ==
    [][ \A k \in 1..MaxPending : \A outcome \in {"summary", "null", "throws"} :
            (k <= Len(plugin.pending) /\ SummarizeSettleWith(k, outcome))
            => \A m \in Range(plugin.memoryBuffer) \ Range(plugin'.memoryBuffer) :
                   /\ outcome = "summary"
                   /\ \E j \in 1..Len(plugin.pending) :
                          m \in Range(plugin.pending[j].text) ]_vars

\* C39: func runs only after `delay` has passed with no further call of the
\* wrapper, once for a burst of calls and with the arguments of the last
\* call.  Every run of func comes a full delay after the last call of the
\* wrapper, is the first one since that call and gets its arguments; and
\* after a call func does run.
C39_RunsOnceAfterQuietDelay ==
    /\ [][ debounced'.invoked # debounced.invoked
           => /\ debounced.sinceCall >= Delay
              /\ ~debounced.called
              /\ debounced'.invoked = Append(debounced.invoked, debounced.lastArgs) ]_vars
    /\ (debounced.calls > 0 /\ ~debounced.called) ~> debounced.called

\* three calls of the wrapper, the last one with "b", and func has run once,
\* with "b"
C39_Witness ==
    /\ debounced.calls = 3
    /\ debounced.lastArgs = "b"
    /\ debounced.invoked = <<"b">>
    /\ debounced.table = <<>>

====
